---- MODULE Spec2Model ----
(***************************************************************************)
(* A model of the management-server HTTP client of src/http_api.py:        *)
(* the domain objects (Camera, Archive, Detector), the Connection verbs    *)
(* and the two check_for_error policies, WebHttpApi.get_arch_intervals,    *)
(* the export job polling loop of WebHttpApi.export_video, and the         *)
(* create-via-diff factory RsgHttpApi.get_new_object with its per-type     *)
(* locks and the operations built on it; of the waits for the server of    *)
(* src/environment_manager.py; and of configure_loggers and the socket     *)
(* handler of src/axxon_autotest_loggers.py.                               *)
(***************************************************************************)
EXTENDS Integers, Sequences, FiniteSets, TLC

VARIABLES
    \* ---- the RSG server and the threads that call one RsgHttpApi ----
    coll,       \* server: object type -> set of ids of the objects that exist
    dirty,      \* server: an operation was performed since the last flush
    locks,      \* RsgHttpApi.locks: <<instance, type>> -> holding thread, 0 = free
    inst,       \* thread -> the RsgHttpApi instance it calls
    pc,         \* thread -> position in the operation it runs
    op,         \* thread -> <<operation, object type>> it runs
    before,     \* thread -> objects_before
    after,      \* thread -> objects_after
    created,    \* thread -> id the server made for this thread's POST, 0 = none
    result,     \* thread -> a.created_object, 0 = none
    exc,        \* thread -> exception the operation raised, "" = none
    lastMsg,    \* thread -> Message of the last response the thread received
    calls,      \* number of operations that have ended
    prev,       \* history: <<operation, type, how it ended, result>> of the last ended one
    tainted,    \* history: object type -> somebody else modified the collection
    foreign,    \* history: number of modifications made by other clients
    sent,       \* history: thread -> the requests its operation has sent, in order
    \* ---- one call of a verb of a Connection ----
    httpCall,   \* the last call: its inputs, what it did in order, how it ended
    \* ---- one call of WebHttpApi.export_video ----
    epc,        \* position: "start", "poll", "sleep", "download", "returned", "raised"
    posted,     \* the export job was submitted (the POST was answered without error)
    sleep,      \* the local `sleep`, seconds, a fraction <<numerator, denominator>>
    acc_sleep,  \* the local `acc_sleep`, seconds, a fraction
    resp_dict,  \* the last status received
    polls,      \* number of status requests sent
    increasing, \* history: the progress values reported so far rise strictly in [0, 1]
    files,      \* the files of the final status still to download
    file_pathes,\* the local `file_pathes`
    eexc,       \* the exception export_video raised
    args,       \* the arguments of the call that matter: format_, save_dir, timeout
    downloads,  \* history: the file names requested from the server, in order
    \* ---- two domain objects of a program ----
    objects,    \* 1..2 -> the object constructed, or what its construction raised
    built,      \* history: 1..2 -> the constructor called and its arguments
    derived,    \* 1..2 -> the derived identifiers read from the object
    compared,   \* the results of comparing object 1 with object 2
    \* ---- one call of WebHttpApi.get_arch_intervals ----
    ai_pc,      \* position: "start", "nodes", "query", "returned", "raised"
    ai_args,    \* the arguments of the call
    ai_nodes,   \* the local `nodes`, the answer of get_nodes()
    ai_node,    \* the local `node`
    ai_requests,\* history: the requests sent, in order
    ai_data,    \* the body of the answer to the interval query
    ai_result,  \* the value returned: <<intervals, more>>
    ai_exc,     \* the exception raised, "" = none
    \* ---- one call of Manager.wait_for_server_stop / wait_for_server_start ----
    w_pc,       \* position: "start", "test", "check", "sleep", "returned"
    w_args,     \* the call: what is awaited ("stop", "start") and the timeout
    w_elapsed,  \* whole seconds that have passed since t0
    w_running,  \* the server process exists
    w_checks,   \* history: number of calls of is_server_running()
    w_result,   \* the value returned, <<>> = none yet
    \* ---- the loggers 'axxon' and 'axxonnext' and their socket handler ----
    lg_handlers,\* logger name -> the classes of its handlers, in order
    lg_filters, \* logger name -> the classes of its filters, in order
    lg_calls,   \* history: number of calls of configure_loggers()
    sk_connected,\* the TCPMessagesSocket of the socket handler is connected
    sk_emit,    \* history: the last emit of the socket handler: record, calls made, message sent
    sk_emits    \* history: number of records the socket handler was given

threadVars == <<coll, dirty, locks, inst, pc, op, before, after, created,
                result, exc, lastMsg, calls, prev, tainted, foreign, sent>>

httpVars == <<httpCall>>

exportVars == <<epc, posted, sleep, acc_sleep, resp_dict, polls, increasing,
                files, file_pathes, eexc, args, downloads>>

objectVars == <<objects, built, derived, compared>>

intervalVars == <<ai_pc, ai_args, ai_nodes, ai_node, ai_requests, ai_data,
                  ai_result, ai_exc>>

waitVars == <<w_pc, w_args, w_elapsed, w_running, w_checks, w_result>>

loggingVars == <<lg_handlers, lg_filters, lg_calls, sk_connected, sk_emit, sk_emits>>

\* what the operations of the threads leave alone
otherVars == <<httpVars, exportVars, objectVars, intervalVars, waitVars, loggingVars>>

\* what a verb of a Connection leaves alone
exceptHttp ==
    <<threadVars, exportVars, objectVars, intervalVars, waitVars, loggingVars>>

\* what export_video leaves alone
exceptExport ==
    <<threadVars, httpVars, objectVars, intervalVars, waitVars, loggingVars>>

\* what the domain objects leave alone
exceptObjects ==
    <<threadVars, httpVars, exportVars, intervalVars, waitVars, loggingVars>>

\* what get_arch_intervals leaves alone
exceptIntervals ==
    <<threadVars, httpVars, exportVars, objectVars, waitVars, loggingVars>>

\* what the waits for the server leave alone
exceptWait ==
    <<threadVars, httpVars, exportVars, objectVars, intervalVars, loggingVars>>

\* what the loggers leave alone
exceptLogging ==
    <<threadVars, httpVars, exportVars, objectVars, intervalVars, waitVars>>

vars == <<threadVars, httpVars, exportVars, objectVars, intervalVars, waitVars,
          loggingVars>>

(***************************************************************************)
(* Bounds of the model.                                                    *)
(***************************************************************************)
NumThreads == 2
MaxIds == 3
MaxCalls == 2
MaxForeign == 1
MaxPolls == 4
HashModulus == 1024
MaxIntervals == 3
SecondsPerDay == 4
MaxTimeout == 5
MaxConfigureCalls == 3
MaxEmits == 3

Threads == 1..NumThreads
Ids == 1..MaxIds

(***************************************************************************)
(* Python 2 strings.  A string is its text, a sequence of tokens (pieces   *)
(* of text that the program never cuts), and its kind: u is TRUE for a     *)
(* unicode object (every string of a JSON body), FALSE for a str.          *)
(***************************************************************************)
Str(tokens) == [u |-> FALSE, s |-> tokens]

Unicode(tokens) == [u |-> TRUE, s |-> tokens]

PyInt(n) == [int |-> n]

PyNone == [none |-> TRUE]

Raised(e) == [raised |-> e]

IsStr(v) == DOMAIN v = {"u", "s"}

IsInt(v) == DOMAIN v = {"int"}

IsRaised(v) == DOMAIN v = {"raised"}

\* a == b between two values: an ASCII str equals the unicode of the same
\* text, a string never equals a number
PyEq(a, b) ==
    IF IsStr(a) /\ IsStr(b) THEN a.s = b.s ELSE a = b

\* a + b: the result is unicode when either side is
Concat(a, b) == [u |-> a.u \/ b.u, s |-> a.s \o b.s]

\* the integers that have a text in the model
Numbers == 0..(MaxIds + 6)

\* str(v) of an integer or of a string, as text
Text(v) == IF IsInt(v) THEN <<ToString(v.int)>> ELSE IF IsStr(v) THEN v.s ELSE <<"None">>

\* int(text): the texts int() accepts are the decimal numerals, also with a
\* leading zero; anything else is a ValueError
IntOf(text) ==
    IF text = <<"03">> THEN PyInt(3)
    ELSE IF Len(text) = 1 /\ \E n \in Numbers : ToString(n) = text[1]
    THEN PyInt(CHOOSE n \in Numbers : ToString(n) = text[1])
    ELSE Raised("ValueError")

RECURSIVE SplitText(_, _)
\* text.split(sep)
SplitText(text, sep) ==
    IF \A i \in 1..Len(text) : text[i] # sep THEN <<text>>
    ELSE LET i == CHOOSE i \in 1..Len(text) :
                      text[i] = sep /\ \A j \in 1..(i - 1) : text[j] # sep
         IN <<SubSeq(text, 1, i - 1)>> \o SplitText(SubSeq(text, i + 1, Len(text)), sep)

RECURSIVE JoinText(_, _)
\* sep.join(parts)
JoinText(parts, sep) ==
    IF parts = <<>> THEN <<>>
    ELSE IF Len(parts) = 1 THEN parts[1]
    ELSE parts[1] \o <<sep>> \o JoinText(Tail(parts), sep)

\* text.endswith(suffix)
EndsWith(text, suffix) ==
    /\ Len(suffix) <= Len(text)
    /\ SubSeq(text, Len(text) - Len(suffix) + 1, Len(text)) = suffix

\* text.rindex(sub), counted in tokens from 0, for a text that contains sub
RIndex(text, sub) ==
    LET At(i) == SubSeq(text, i + 1, i + Len(sub)) = sub
    IN CHOOSE i \in 0..(Len(text) - Len(sub)) :
          At(i) /\ \A j \in (i + 1)..(Len(text) - Len(sub)) : ~At(j)

\* the tokens of the model, each with a code of its own
TokenList ==
    <<"hosts", "/", ".", ":", "'", "u", "|", "None", "N1", "N2", "a", "b", "x",
      "DeviceIpint", "SourceEndpoint", "video", "vmda", "EventSupplier", "My",
      "AVDetector", "MultimediaStorage", "Camera", "Archive", "Detector",
      "03", "d1", "d2", " ", "\"", "for", "Red", "Blue">>
    \o [n \in 1..Cardinality(Numbers) |-> ToString(n - 1)]

Code(token) == CHOOSE i \in 1..Len(TokenList) : TokenList[i] = token

RECURSIVE HashFrom(_, _)
HashFrom(h, text) ==
    IF text = <<>> THEN h
    ELSE HashFrom((h * 31 + Code(Head(text))) % HashModulus, Tail(text))

\* hash(string): a function of the text into a machine word (here a word
\* of HashModulus values); a str and the unicode of the same text hash alike
Hash(string) == HashFrom(7, string.s)

\* repr(string): 'text' for a str, u'text' for a unicode
Repr(string) ==
    Str((IF string.u THEN <<"u">> ELSE <<>>) \o <<"'">> \o string.s \o <<"'">>)

(***************************************************************************)
(* The domain objects: AxxonObject and Camera, Archive, Detector.          *)
(***************************************************************************)
Classes == {"Camera", "Archive", "Detector"}

NoObject == [cls |-> "-"]

\* AxxonObject.__init__; Camera and Archive have no attribute but id
AxxonObject(cls, id) ==
    [cls |-> cls, id |-> id, endpoint |-> PyNone, camera |-> PyNone, name |-> PyNone]

IsObject(o) == "cls" \in DOMAIN o /\ o.cls \in Classes

\* AxxonObject.__hash__: hash('{}{!r}'.format(type(self).__name__, self.id))
HashOfObject(o) == Hash(Str(<<o.cls>> \o Repr(o.id).s))

\* AxxonObject.__eq__
Eq(self, other) == HashOfObject(self) = HashOfObject(other)

\* AxxonObject.__ne__
Ne(self, other) == ~Eq(self, other)

\* Camera.from_display_id
FromDisplayId(node, display_id, channel, stream) ==
    AxxonObject("Camera",
        Str(<<"hosts", "/">> \o Text(node) \o <<"/", "DeviceIpint", ".">>
            \o Text(display_id) \o <<"/", "SourceEndpoint", ".", "video", ":">>
            \o Text(channel) \o <<":">> \o Text(stream)))

EventSupplier == <<"EventSupplier">>

SourceEndpointVmda == <<"SourceEndpoint", ".", "vmda">>

\* Detector.__init__; the bare `raise` of the last branch has nothing to
\* re-raise, which is itself an error
NewDetector(id, camera, name) ==
    IF EndsWith(id.s, EventSupplier)
    THEN [cls |-> "Detector", id |-> id, endpoint |-> PyNone,
          camera |-> camera, name |-> name]
    ELSE IF EndsWith(id.s, SourceEndpointVmda)
    THEN [cls |-> "Detector",
          id |-> Concat([u |-> id.u,
                         s |-> SubSeq(id.s, 1, RIndex(id.s, SourceEndpointVmda))],
                        Str(EventSupplier)),
          endpoint |-> id, camera |-> camera, name |-> name]
    ELSE Raised("TypeError")

\* self.id.split('/')
Parts(o) == SplitText(o.id.s, "/")

\* AxxonObject.node
Node(o) ==
    IF Len(Parts(o)) < 2 THEN Raised("IndexError")
    ELSE [u |-> o.id.u, s |-> Parts(o)[2]]

\* self.id.split('/')[2].split('.')[1]
Number(o) ==
    IF Len(Parts(o)) < 3 \/ Len(SplitText(Parts(o)[3], ".")) < 2
    THEN Raised("IndexError")
    ELSE [u |-> o.id.u, s |-> SplitText(Parts(o)[3], ".")[2]]

\* Camera.video_source_id
VideoSourceId(o) == [u |-> o.id.u, s |-> JoinText(Tail(Parts(o)), "/")]

\* DisplayId with a fault injected: the number as its text, not converted
DisplayIdAsText(o) == Number(o)

\* Camera.display_id
DisplayId(o) == IF IsRaised(Number(o)) THEN Number(o) ELSE IntOf(Number(o).s)

\* Camera.source_endpoint_id; str.format gives a str
SourceEndpointId(o) ==
    Str(o.id.s \o <<"/", "SourceEndpoint", ".", "video", ":", "0", ":", "0">>)

\* Camera.embedded_storage_id
EmbeddedStorageId(o) == Str(o.id.s \o <<"/", "MultimediaStorage", ".", "0">>)

\* Detector.label: '{} "{}" for Camera {}'.format(n, self.name, self.camera.label)
LabelOfDetector(o) ==
    IF IsRaised(Number(o)) THEN Number(o)
    ELSE IF ~IsObject(o.camera) THEN Raised("AttributeError")
    ELSE IF IsRaised(Number(o.camera)) THEN Number(o.camera)
    ELSE Str(Number(o).s \o <<" ", "\"">> \o Text(o.name) \o <<"\"", " ", "for", " ",
             "Camera", " ">> \o Number(o.camera).s)

\* label of a Camera, an Archive or a Detector
Label(o) == IF o.cls = "Detector" THEN LabelOfDetector(o) ELSE Number(o)

\* Detector.get_id_for_search
GetIdForSearch(o, vmda) ==
    IF vmda
    THEN [u |-> o.id.u,
          s |-> JoinText(SubSeq(Parts(o), 2, IF Len(Parts(o)) < 3 THEN Len(Parts(o)) ELSE 3)
                         \o <<SourceEndpointVmda>>, "/")]
    ELSE [u |-> o.id.u, s |-> JoinText(Tail(Parts(o)), "/")]

NotApplicable == [na |-> TRUE]

\* every derived identifier the class of o has
Derived(o) ==
    [node |-> Node(o),
     label |-> Label(o),
     video_source_id |-> IF o.cls = "Camera" THEN VideoSourceId(o) ELSE NotApplicable,
     display_id |-> IF o.cls = "Camera" THEN DisplayId(o) ELSE NotApplicable,
     source_endpoint_id |-> IF o.cls = "Camera" THEN SourceEndpointId(o) ELSE NotApplicable,
     embedded_storage_id |-> IF o.cls = "Camera" THEN EmbeddedStorageId(o) ELSE NotApplicable,
     id_for_search |-> IF o.cls = "Detector" THEN GetIdForSearch(o, FALSE) ELSE NotApplicable,
     id_for_search_vmda |-> IF o.cls = "Detector" THEN GetIdForSearch(o, TRUE) ELSE NotApplicable]

\* the ids the server lists cameras with
CameraIds ==
    {Unicode(<<"hosts", "/", "N1", "/", "DeviceIpint", ".", "1">>),
     Unicode(<<"hosts", "/", "N1", "/", "DeviceIpint", ".", "3", "/",
               "SourceEndpoint", ".", "video", ":", "0", ":", "0">>),
     Str(<<"hosts", "/", "N1", "/", "DeviceIpint", ".", "3", "/",
           "SourceEndpoint", ".", "video", ":", "0", ":", "0">>)}

ArchiveIds ==
    {Unicode(<<"hosts", "/", "N1", "/", "MultimediaStorage", ".", "Red">>),
     Unicode(<<"hosts", "/", "N1", "/", "MultimediaStorage", ".", "Blue">>),
     Unicode(<<"hosts", "/", "N1", "/", "DeviceIpint", ".", "1">>)}

\* ids a Detector is constructed from: the canonical form, the alternate
\* form, neither, and a last part that merely ends in 'EventSupplier'
DetectorIds ==
    {Unicode(<<"hosts", "/", "N1", "/", "AVDetector", ".", "1", "/", "EventSupplier">>),
     Str(<<"hosts", "/", "N1", "/", "AVDetector", ".", "1", "/", "EventSupplier">>),
     Unicode(<<"hosts", "/", "N1", "/", "AVDetector", ".", "1", "/",
               "SourceEndpoint", ".", "vmda">>),
     Unicode(<<"hosts", "/", "N1", "/", "AVDetector", ".", "2", "/", "EventSupplier">>),
     Unicode(<<"hosts", "/", "N1", "/", "AVDetector", ".", "1">>),
     Unicode(<<"hosts", "/", "N1", "/", "AVDetector", ".", "1", "/", "My", "EventSupplier">>)}

NodeNames == {Str(<<"N1">>), Str(<<"N2">>), Str(<<"a", "/", "b">>)}

\* display ids: numbers, and texts that are numerals or not
DisplayIds ==
    {PyInt(1), PyInt(3), Str(<<"3">>), Str(<<"03">>), Str(<<"x">>), Str(<<"1", ".", "5">>)}

DetectorNames == {PyNone, Unicode(<<"d1">>), Unicode(<<"d2">>)}

NotBuilt == [how |-> "-"]

NotRead == [read |-> FALSE]

NotCompared == [done |-> FALSE]

Construct(k, o, how) ==
    /\ objects[k] = NoObject
    /\ objects' = [objects EXCEPT ![k] = o]
    /\ built' = [built EXCEPT ![k] = how]
    /\ UNCHANGED <<derived, compared>>
    /\ UNCHANGED exceptObjects

\* Camera(id)
ConstructCamera(k) ==
    \E id \in CameraIds :
        Construct(k, AxxonObject("Camera", id), [how |-> "Camera", id |-> id])

\* Camera.from_display_id(node, display_id, channel, stream)
ConstructFromDisplayId(k) ==
    \E node \in NodeNames, display_id \in DisplayIds, channel \in {0, 1} :
        Construct(k, FromDisplayId(node, display_id, PyInt(channel), PyInt(0)),
                  [how |-> "from_display_id", node |-> node,
                   display_id |-> display_id, channel |-> channel, stream |-> 0])

\* Archive(id)
ConstructArchive(k) ==
    \E id \in ArchiveIds :
        Construct(k, AxxonObject("Archive", id), [how |-> "Archive", id |-> id])

\* Detector(id, camera, name)
ConstructDetector(k) ==
    \E id \in DetectorIds, cam \in {1, 3}, name \in DetectorNames :
        LET camera == AxxonObject("Camera",
                Unicode(<<"hosts", "/", "N1", "/", "DeviceIpint", ".", ToString(cam)>>))
        IN Construct(k, NewDetector(id, camera, name),
                     [how |-> "Detector", id |-> id, camera |-> camera, name |-> name])

\* the program reads every derived identifier of object k
ReadDerived(k) ==
    /\ IsObject(objects[k])
    /\ derived[k] = NotRead
    /\ derived' = [derived EXCEPT ![k] = Derived(objects[k])]
    /\ UNCHANGED <<objects, built, compared>>
    /\ UNCHANGED exceptObjects

\* the program compares the two objects and takes their hashes
Compare ==
    /\ IsObject(objects[1]) /\ IsObject(objects[2])
    /\ compared = NotCompared
    /\ compared' = [done |-> TRUE,
                    eq |-> Eq(objects[1], objects[2]),
                    eq_reversed |-> Eq(objects[2], objects[1]),
                    ne |-> Ne(objects[1], objects[2]),
                    hash1 |-> HashOfObject(objects[1]),
                    hash2 |-> HashOfObject(objects[2])]
    /\ UNCHANGED <<objects, built, derived>>
    /\ UNCHANGED exceptObjects

ObjectsInit ==
    /\ objects = [k \in 1..2 |-> NoObject]
    /\ built = [k \in 1..2 |-> NotBuilt]
    /\ derived = [k \in 1..2 |-> NotRead]
    /\ compared = NotCompared

NextObjects ==
    \/ \E k \in 1..2 : \/ ConstructCamera(k) \/ ConstructFromDisplayId(k)
                       \/ ConstructArchive(k) \/ ConstructDetector(k)
                       \/ ReadDerived(k)
    \/ Compare

(***************************************************************************)
(* RsgHttpApi.__init__: the object types and one lock per type.            *)
(***************************************************************************)
ObjectTypes == {"Camera", "Archive", "Detector"}

\* the RsgHttpApi objects of the program; each has locks of its own
Instances == {1, 2}

\* LockKey with a fault injected: the locks are shared by all the instances
LockKeyOfClass(i, ty) == <<1, ty>>

\* LockKey with a fault injected: one lock for all the types
LockKeyGlobal(i, ty) == <<i, "Camera">>

LockKey(i, ty) == <<i, ty>>

\* LockFree with a fault injected: the lock is not waited for
LockFreeAlways(k) == TRUE

LockFree(k) == locks[k] = 0

(***************************************************************************)
(* Responses of the server: the envelope {"Result", "Message", "Data"}.    *)
(***************************************************************************)
Absent == "<absent>"

ignored_messages ==
    { "Can't find objects to delete",
      "Can't find detectors to remove",
      "Nothing to flush, no operations were performed" }

Response(st, js, res, msg) ==
    [status |-> st, json |-> js, Result |-> res, Message |-> msg]

\* RsgCheckForError with a fault injected: the HTTP status decides
RsgCheckForErrorByStatus(r) ==
    IF ~r.json THEN "ValueError"
    ELSE IF r.status >= 400 THEN "RSGServerError"
    ELSE "ok"

\* RsgCheckForError with a fault injected: no message is ignored
RsgCheckForErrorStrict(r) ==
    IF ~r.json THEN "ValueError"
    ELSE IF r.Result = Absent THEN "KeyError"
    ELSE IF r.Result # "Success" THEN "RSGServerError"
    ELSE "ok"

\* RsgHttpApi.check_for_error: "ok" when it returns, else the exception raised.
RsgCheckForError(r) ==
    IF ~r.json THEN "ValueError"
    ELSE IF r.Result = Absent THEN "KeyError"
    ELSE IF r.Result # "Success"
         THEN IF r.Message = Absent THEN "KeyError"
              ELSE IF r.Message \notin ignored_messages THEN "RSGServerError"
              ELSE "ok"
         ELSE "ok"

Ok == Response(200, TRUE, "Success", "")

\* the HTTP statuses the server is taken to send with an envelope that is not a success
FailureStatuses == {200, 400, 500}

ServerFailure == Response(500, TRUE, "Failed", "Internal error")

\* The message the server gives when DELETE id='.' finds nothing of that type.
NothingToDelete(ty) ==
    IF ty = "Detector" THEN "Can't find detectors to remove"
    ELSE "Can't find objects to delete"

NothingToFlush == "Nothing to flush, no operations were performed"

\* GET /rsg/ipint, /rsg/archive, /rsg/detector, PUT of the settings, GET of the info
PlainAnswers == {Ok, ServerFailure}

\* POST /rsg/ipint, /rsg/archive, /rsg/detector
CreateAnswers(ty) ==
    IF Ids \ coll[ty] = {} THEN {ServerFailure} ELSE {Ok, ServerFailure}

\* DELETE with id='.'
DeleteAllAnswers(ty) ==
    IF coll[ty] = {}
    THEN {Response(st, TRUE, "Failed", NothingToDelete(ty)) : st \in FailureStatuses}
         \cup {ServerFailure}
    ELSE {Ok, ServerFailure}

\* POST /rsg {'action': 'flush'}
FlushAnswers ==
    IF dirty THEN {Ok, ServerFailure}
    ELSE {Response(st, TRUE, "Failed", NothingToFlush) : st \in FailureStatuses}
         \cup {ServerFailure}

(***************************************************************************)
(* The verbs of a Connection and the check_for_error policies.             *)
(***************************************************************************)
Apis == {"Connection", "WebHttpApi", "RsgHttpApi"}

Statuses == {100, 200, 204, 299, 300, 304, 399, 400, 404, 499, 500, 599}

Results == {Absent, "Success", "Failed", "Error"}

Messages == ignored_messages \cup {Absent, "Internal error"}

\* the responses a server may give: any status, a body that is JSON or not,
\* the keys Result and Message each present or not
Responses ==
    {Response(st, TRUE, res, msg) : st \in Statuses, res \in Results, msg \in Messages}
    \cup {Response(st, FALSE, Absent, Absent) : st \in Statuses}

\* RaiseForStatus with a fault injected: every status outside 2xx is an error
RaiseForStatusNon2xx(st) == ~(200 <= st /\ st < 300)

\* requests.Response.raise_for_status: HTTPError for the 4xx and 5xx statuses
RaiseForStatus(st) == 400 <= st /\ st < 600

\* WebHttpApi.check_for_error
WebCheckForError(r) == IF RaiseForStatus(r.status) THEN "ServerError" ELSE "ok"

\* Connection.check_for_error, the hook that must be overridden
ConnectionCheckForError(r) == "Exception"

CheckForError(api, r) ==
    CASE api = "WebHttpApi" -> WebCheckForError(r)
      [] api = "RsgHttpApi" -> RsgCheckForError(r)
      [] OTHER -> ConnectionCheckForError(r)

\* how a call ends: the response is returned, or an exception is raised
Outcome(check) == IF check = "ok" THEN "returned" ELSE check

\* the audit record of RsgHttpApi.prepare; db is "off" (db_session is None),
\* "on", or "broken" (add or commit raises, the error is logged)
AuditSteps(api, db) ==
    IF api = "RsgHttpApi" /\ db # "off"
    THEN IF db = "on" THEN <<"audit">> ELSE <<"audit_error">>
    ELSE <<>>

\* Prepare with a fault injected: the response is returned without being checked
PrepareUnchecked(api, absolute, r, db) ==
    IF ~absolute
    THEN [steps |-> <<>>, outcome |-> "AssertionError"]
    ELSE [steps |-> <<"request">> \o AuditSteps(api, db), outcome |-> "returned"]

\* Prepare with a fault injected: an error of the audit store leaves the call
PrepareAuditRaises(api, absolute, r, db) ==
    IF ~absolute
    THEN [steps |-> <<>>, outcome |-> "AssertionError"]
    ELSE IF AuditSteps(api, db) = <<"audit_error">>
    THEN [steps |-> <<"request", "audit_error">>, outcome |-> "SQLAlchemyError"]
    ELSE [steps |-> <<"request">> \o AuditSteps(api, db) \o <<"check_for_error">>,
          outcome |-> Outcome(CheckForError(api, r))]

\* Connection.prepare and RsgHttpApi.prepare, the wrapper of every verb: what
\* the call does, in order, and how it ends
Prepare(api, absolute, r, db) ==
    IF ~absolute
    THEN [steps |-> <<>>, outcome |-> "AssertionError"]
    ELSE [steps |-> <<"request">> \o AuditSteps(api, db) \o <<"check_for_error">>,
          outcome |-> Outcome(CheckForError(api, r))]

\* one call of a verb; the wrapper keeps no state from one call to the next
Verb(verb) ==
    /\ httpCall.verb = "-"
    /\ \E api \in Apis, absolute \in BOOLEAN, r \in Responses,
          db \in {"off", "on", "broken"} :
          httpCall' = [verb |-> verb, api |-> api, absolute |-> absolute,
                       response |-> r, db |-> IF api = "RsgHttpApi" THEN db ELSE "off",
                       steps |-> Prepare(api, absolute, r, db).steps,
                       outcome |-> Prepare(api, absolute, r, db).outcome]
    /\ UNCHANGED exceptHttp

Get == Verb("GET")

Post == Verb("POST")

Put == Verb("PUT")

Delete == Verb("DELETE")

HttpInit ==
    httpCall = [verb |-> "-", api |-> "-", absolute |-> TRUE, response |-> Ok, db |-> "off",
                steps |-> <<>>, outcome |-> "-"]

NextHttp == Get \/ Post \/ Put \/ Delete

(***************************************************************************)
(* WebHttpApi.get_arch_intervals.  A time stamp is the text of a second    *)
(* with or without its milliseconds (ms = -1: 'YYYYMMDDTHHmmss'), an Arrow *)
(* is an instant in milliseconds.                                          *)
(***************************************************************************)
Ts(sec, ms) == [sec |-> sec, ms |-> ms]

BadTs == [sec |-> -1, ms |-> -1]

Arrow(instant) == [instant |-> instant]

\* ts_to_arrow: arrow.get(time_stamp, ['YYYYMMDDTHHmmss.SSS', 'YYYYMMDDTHHmmss'])
TsToArrow(ts) ==
    IF ts = BadTs THEN Raised("ParserError")
    ELSE Arrow(ts.sec * 1000 + (IF ts.ms = -1 THEN 0 ELSE ts.ms))

\* arrow_to_ts: format('YYYYMMDDTHHmmss.SSS')
ArrowToTs(a) == Ts(a.instant \div 1000, a.instant % 1000)

NEWER_FIRST == "NEWER_FIRST"

OLDER_FIRST == "OLDER_FIRST"

\* the intervals a server may list: two that begin at one instant written in
\* the two forms, later ones, and one whose begin cannot be parsed
ServerIntervals ==
    {[begin |-> Ts(1, -1), end |-> Ts(3, -1)],
     [begin |-> Ts(1, 0), end |-> Ts(4, -1)],
     [begin |-> Ts(1, 500), end |-> Ts(3, 0)],
     [begin |-> Ts(2, -1), end |-> Ts(3, -1)],
     [begin |-> BadTs, end |-> Ts(3, -1)]}

RECURSIVE IntervalLists(_)
IntervalLists(n) ==
    IF n = 0 THEN {<<>>}
    ELSE IntervalLists(n - 1)
         \cup {Append(l, i) : l \in {x \in IntervalLists(n - 1) : Len(x) = n - 1},
                              i \in ServerIntervals}

\* the node lists GET /hosts may answer with
NodeLists ==
    {<<>>, <<Unicode(<<"N1">>)>>, <<Unicode(<<"N2">>)>>,
     <<Unicode(<<"N1">>), Unicode(<<"N2">>)>>}

\* add_int_to_dict(dict_, key, val): the value is stored under the literal 'key'
AddIntToDict(dict_, key, val) ==
    IF val = PyNone THEN dict_
    ELSE LET i == IF IsInt(val) THEN val ELSE IntOf(Text(val)) IN
         IF IsRaised(i) THEN Raised("Exception: Wrong value of " \o key)
         ELSE [k \in DOMAIN dict_ \cup {"key"} |-> IF k = "key" THEN i ELSE dict_[k]]

RECURSIVE Converted(_)
\* the comprehension of lines 365-368: every time stamp becomes an Arrow; the
\* new list as [intervals |-> ...], or what ts_to_arrow raised
Converted(list) ==
    IF list = <<>> THEN [intervals |-> <<>>]
    ELSE LET b == TsToArrow(Head(list).begin)
             e == TsToArrow(Head(list).end)
             rest == Converted(Tail(list)) IN
         IF IsRaised(b) THEN b
         ELSE IF IsRaised(e) THEN e
         ELSE IF IsRaised(rest) THEN rest
         ELSE [intervals |-> <<[begin |-> b, end |-> e]>> \o rest.intervals]

\* Reverse with a fault injected: the two orders are taken for each other
ReverseOlderFirst(sort_order) == sort_order = OLDER_FIRST

\* reverse=(sort_order is TimeSortOrder.NEWER_FIRST)
Reverse(sort_order) == sort_order = NEWER_FIRST

RECURSIVE InsertSorted(_, _, _)
\* x put behind the elements that sort before it or like it
InsertSorted(x, list, reverse) ==
    IF list = <<>> THEN <<x>>
    ELSE IF (IF reverse THEN Head(list).begin.instant >= x.begin.instant
                        ELSE Head(list).begin.instant <= x.begin.instant)
    THEN <<Head(list)>> \o InsertSorted(x, Tail(list), reverse)
    ELSE <<x>> \o list

RECURSIVE Sorted(_, _)
\* sorted(list, key=itemgetter('begin'), reverse=reverse): a stable sort, also
\* when reversed
Sorted(list, reverse) ==
    IF list = <<>> THEN <<>>
    ELSE InsertSorted(list[Len(list)], Sorted(SubSeq(list, 1, Len(list) - 1), reverse),
                      reverse)

\* ChooseNode with a fault injected: the first node is taken when there are several
ChooseFirstNode(nodes) == IF Len(nodes) = 0 THEN Raised("Exception") ELSE nodes[1]

\* lines 341-344: the node is chosen when get_nodes() lists exactly one
ChooseNode(nodes) == IF Len(nodes) # 1 THEN Raised("Exception") ELSE nodes[1]

NoIntervalArgs ==
    [node |-> PyNone, display_id |-> PyNone, sort_order |-> "-", begin_time |-> PyNone,
     end_time |-> PyNone, limit |-> PyNone, scale |-> PyNone]

NoData == [intervals |-> <<>>, more |-> FALSE]

NoResult == <<>>

RaiseIntervals(e) ==
    /\ ai_pc' = "raised"
    /\ ai_exc' = e

\* the call: get_arch_intervals(display_id, node, begin_time, end_time, limit,
\* scale, sort_order)
CallIntervals ==
    /\ ai_pc = "start"
    /\ \E node \in {PyNone, Str(<<"N1">>)}, sort_order \in {NEWER_FIRST, OLDER_FIRST},
          times \in {<<PyNone, PyNone>>, <<Arrow(1500), Arrow(3000)>>},
          limit \in {PyNone, PyInt(5), Str(<<"x">>)}, scale \in {PyNone, PyInt(2)} :
          /\ ai_args' = [node |-> node, display_id |-> PyInt(3), sort_order |-> sort_order,
                         begin_time |-> times[1], end_time |-> times[2],
                         limit |-> limit, scale |-> scale]
          /\ ai_node' = node
          /\ ai_pc' = IF node = PyNone THEN "nodes" ELSE "query"
    /\ UNCHANGED <<ai_nodes, ai_requests, ai_data, ai_result, ai_exc>>
    /\ UNCHANGED exceptIntervals

\* lines 339-344: nodes = self.get_nodes() and the choice of the node
ResolveNode ==
    /\ ai_pc = "nodes"
    /\ ai_requests' = Append(ai_requests, [path |-> "/hosts"])
    /\ \E st \in {200, 500}, nodes \in NodeLists :
          IF WebCheckForError(Response(st, TRUE, Absent, Absent)) # "ok"
          THEN RaiseIntervals("ServerError") /\ UNCHANGED <<ai_nodes, ai_node>>
          ELSE /\ ai_nodes' = nodes
               /\ IF IsRaised(ChooseNode(nodes))
                  THEN RaiseIntervals("Exception: Cann't choose node name automatically")
                       /\ UNCHANGED ai_node
                  ELSE ai_node' = ChooseNode(nodes) /\ ai_pc' = "query" /\ UNCHANGED ai_exc
    /\ UNCHANGED <<ai_args, ai_data, ai_result>>
    /\ UNCHANGED exceptIntervals

\* lines 346-371: the parameters, the interval query, the conversion, the sort
QueryIntervals ==
    /\ ai_pc = "query"
    /\ LET params1 == AddIntToDict(<<>>, "limit", ai_args.limit)
           params == IF IsRaised(params1) THEN params1
                     ELSE AddIntToDict(params1, "scale", ai_args.scale)
           end_time == IF ai_args.end_time = PyNone THEN "future"
                       ELSE ArrowToTs(ai_args.end_time)
           begin_time == IF ai_args.begin_time = PyNone THEN "past"
                         ELSE ArrowToTs(ai_args.begin_time)
           cam == FromDisplayId(ai_node, ai_args.display_id, PyInt(0), PyInt(0))
       IN IF IsRaised(params)
          THEN /\ RaiseIntervals(params.raised)
               /\ UNCHANGED <<ai_requests, ai_data, ai_result>>
          ELSE /\ ai_requests' = Append(ai_requests,
                     [path |-> "/archive/contents/intervals",
                      video_source_id |-> VideoSourceId(cam).s,
                      end_time |-> end_time, begin_time |-> begin_time,
                      params |-> params])
               /\ \E st \in {200, 500}, intervals \in IntervalLists(MaxIntervals),
                     more \in BOOLEAN :
                     IF WebCheckForError(Response(st, TRUE, Absent, Absent)) # "ok"
                     THEN RaiseIntervals("ServerError") /\ UNCHANGED <<ai_data, ai_result>>
                     ELSE /\ ai_data' = [intervals |-> intervals, more |-> more]
                          /\ IF IsRaised(Converted(intervals))
                             THEN RaiseIntervals(Converted(intervals).raised)
                                  /\ UNCHANGED ai_result
                             ELSE /\ ai_result' =
                                       <<Sorted(Converted(intervals).intervals,
                                                Reverse(ai_args.sort_order)), more>>
                                  /\ ai_pc' = "returned"
                                  /\ UNCHANGED ai_exc
    /\ UNCHANGED <<ai_args, ai_nodes, ai_node>>
    /\ UNCHANGED exceptIntervals

IntervalsInit ==
    /\ ai_pc = "start"
    /\ ai_args = NoIntervalArgs
    /\ ai_nodes = <<>>
    /\ ai_node = PyNone
    /\ ai_requests = <<>>
    /\ ai_data = NoData
    /\ ai_result = NoResult
    /\ ai_exc = ""

NextIntervals == CallIntervals \/ ResolveNode \/ QueryIntervals

(***************************************************************************)
(* WebHttpApi.export_video: the export job and its polling loop.           *)
(* Seconds and progress are fractions <<n, d>> with d > 0 in lowest terms  *)
(* (the code computes them in floating point).                             *)
(***************************************************************************)
RECURSIVE GCD(_, _)
GCD(a, b) == IF b = 0 THEN a ELSE GCD(b, a % b)

Abs(n) == IF n < 0 THEN -n ELSE n

Frac(n, d) ==
    LET g == GCD(Abs(n), d) IN <<n \div g, d \div g>>

Less(x, y) == x[1] * y[2] < y[1] * x[2]

Plus(x, y) == Frac(x[1] * y[2] + y[1] * x[2], x[2] * y[2])

One == <<1, 1>>

Zero == <<0, 1>>

Thirty == <<30, 1>>

\* ExportJobState
IN_PROGRESS == 1
DONE == 2
ERROR == 3
NO_SPACE == 4

\* a progress that float() does not accept
NotANumber == <<0, 0>>

\* the progress values the server may report
ProgressValues ==
    {Zero, <<1, 100>>, <<1, 10>>, <<1, 2>>, <<9, 10>>, One, <<3, 2>>, NotANumber}

\* file names that are absolute paths
AbsoluteNames == {"/tmp/c.mkv"}

\* the lists of file names the final status may carry
FileLists ==
    {<<>>, <<"a.mkv">>, <<"a.mkv", "b.mkv">>, <<"b.mkv", "a.mkv">>,
     <<"a.mkv", "a.mkv">>, <<"a.mkv", "/tmp/c.mkv">>}

NoStatus == [state |-> 0, progress |-> Zero, error |-> "", files |-> <<>>]

\* the bodies the server may answer GET {job}/status with; state 5 is a code
\* outside ExportJobState, state -1 a body without the key 'state'
StatusBodies ==
    {[state |-> IN_PROGRESS, progress |-> p, error |-> "", files |-> <<>>] :
        p \in ProgressValues}
    \cup {[state |-> DONE, progress |-> One, error |-> "", files |-> f] :
        f \in FileLists}
    \cup {[state |-> st, progress |-> p, error |-> "export failed", files |-> <<>>] :
        st \in {ERROR, NO_SPACE, 5, -1}, p \in {Zero, <<1, 2>>}}

NoException == [kind |-> "", error |-> "", state |-> 0, progress |-> Zero]

Exception(kind) == [kind |-> kind, error |-> "", state |-> 0, progress |-> Zero]

\* StillInProgress with a fault injected: the loop goes on until the job is DONE
NotYetDone(state) == state # DONE

\* export_video: the loop goes on while
\* resp_dict.get('state', None) == ExportJobState.IN_PROGRESS.value
StillInProgress(state) == state = IN_PROGRESS

\* export_video: sleep = (1.0-p)/p * acc_sleep / 2.0, for p # 0
Estimate(p, acc) ==
    Frac((p[2] - p[1]) * acc[1], p[1] * acc[2] * 2)

\* Limit with a fault injected: only the lower limit is applied
LimitBelow(x) == IF Less(x, One) THEN One ELSE x

\* export_video: if sleep < 1 or sleep > 30: sleep = 1
Limit(x) == IF Less(x, One) \/ Less(Thirty, x) THEN One ELSE x

\* export_video: try: p = float(...); sleep = ... except: pass finally: ...
NextSleep(old, progress, acc) ==
    IF progress = NotANumber \/ progress[1] = 0
    THEN Limit(old)
    ELSE Limit(Estimate(progress, acc))

EndExport(kind) ==
    /\ epc' = "raised"
    /\ eexc' = Exception(kind)

NoArgs == [format_ok |-> FALSE, save_dir |-> "-", timeout |-> "-"]

\* BeforeLoop with a fault injected: the timeout is refused before the job is posted
BeforeLoopTimeoutFirst(format_ok, save_dir, timeout, st, location) ==
    IF ~format_ok
    THEN [posted |-> FALSE, kind |-> "Exception: Unsupported export format_"]
    ELSE IF save_dir = "missing" THEN [posted |-> FALSE, kind |-> "OSError"]
    ELSE IF timeout # "None" THEN [posted |-> FALSE, kind |-> "Exception: TODO"]
    ELSE IF WebCheckForError(Response(st, TRUE, Absent, Absent)) # "ok"
    THEN [posted |-> FALSE, kind |-> "ServerError"]
    ELSE IF ~location THEN [posted |-> TRUE, kind |-> "KeyError"]
    ELSE [posted |-> TRUE, kind |-> ""]

\* export_video up to the loop, in the order of the code: the format, save_dir
\* (os.remove of a path that does not exist raises OSError), the POST of the
\* job, its Location header, the timeout.  kind is the exception raised, ""
\* when the loop is entered; posted tells whether the server took the job.
BeforeLoop(format_ok, save_dir, timeout, st, location) ==
    IF ~format_ok
    THEN [posted |-> FALSE, kind |-> "Exception: Unsupported export format_"]
    ELSE IF save_dir = "missing" THEN [posted |-> FALSE, kind |-> "OSError"]
    ELSE IF WebCheckForError(Response(st, TRUE, Absent, Absent)) # "ok"
    THEN [posted |-> FALSE, kind |-> "ServerError"]
    ELSE IF ~location THEN [posted |-> TRUE, kind |-> "KeyError"]
    ELSE IF timeout # "None" THEN [posted |-> TRUE, kind |-> "Exception: TODO"]
    ELSE [posted |-> TRUE, kind |-> ""]

\* WhileTrue with a fault injected: the loop gives up after a number of polls
WhileNotTooLong(n, acc) == n < 2

\* export_video: `while True`, whatever the number n of polls made and the
\* time acc slept so far
WhileTrue(n, acc) == TRUE

\* Join with a fault injected: the file is saved under its name alone
JoinNameOnly(dir, name) == <<name>>

\* os.path.join(save_dir, file_name), a path as the sequence of its parts: an
\* absolute file_name discards save_dir
Join(dir, name) == IF name \in AbsoluteNames THEN <<name>> ELSE <<dir, name>>

\* the call of export_video, up to the loop
Submit ==
    /\ epc = "start"
    /\ \E format_ok \in BOOLEAN, save_dir \in {"dir", "file", "missing"},
          timeout \in {"None", "set"}, st \in Statuses, location \in BOOLEAN :
          LET b == BeforeLoop(format_ok, save_dir, timeout, st, location) IN
          /\ args' = [format_ok |-> format_ok, save_dir |-> save_dir,
                      timeout |-> timeout]
          /\ posted' = b.posted
          /\ IF b.kind = "" THEN epc' = "poll" /\ UNCHANGED eexc
             ELSE EndExport(b.kind)
    /\ UNCHANGED <<sleep, acc_sleep, resp_dict, polls, increasing, files,
                   file_pathes, downloads>>
    /\ UNCHANGED exceptExport

\* one turn of the loop up to time.sleep, and what follows the loop when it ends
Poll ==
    /\ epc = "poll"
    /\ polls < MaxPolls
    /\ polls' = polls + 1
    /\ \E st \in {200, 500}, body \in StatusBodies :
          IF WebCheckForError(Response(st, TRUE, Absent, Absent)) # "ok"
          THEN /\ EndExport("ServerError")
               /\ UNCHANGED <<resp_dict, sleep, increasing, files>>
          ELSE /\ resp_dict' = body
               /\ increasing' =
                    /\ increasing
                    /\ body.progress # NotANumber
                    /\ ~Less(body.progress, Zero) /\ ~Less(One, body.progress)
                    /\ polls > 0 => Less(resp_dict.progress, body.progress)
               /\ IF StillInProgress(body.state)
                  THEN /\ sleep' = NextSleep(sleep, body.progress, acc_sleep)
                       /\ epc' = "sleep"
                       /\ UNCHANGED <<eexc, files>>
                  ELSE /\ UNCHANGED sleep
                       /\ IF body.state = -1
                          THEN EndExport("KeyError") /\ UNCHANGED files
                          ELSE IF body.state # DONE
                          THEN /\ epc' = "raised"
                               /\ eexc' = [kind |-> "Exception: Error during export",
                                           error |-> body.error,
                                           state |-> body.state,
                                           progress |-> body.progress]
                               /\ UNCHANGED files
                          ELSE /\ files' = body.files
                               /\ epc' = "download"
                               /\ UNCHANGED eexc
    /\ UNCHANGED <<posted, acc_sleep, file_pathes, args, downloads>>
    /\ UNCHANGED exceptExport

\* time.sleep(sleep); acc_sleep += sleep
Sleep ==
    /\ epc = "sleep"
    /\ acc_sleep' = Plus(acc_sleep, sleep)
    /\ IF WhileTrue(polls, acc_sleep') THEN epc' = "poll" /\ UNCHANGED eexc
       ELSE EndExport("Exception: gave up")
    /\ UNCHANGED <<posted, sleep, resp_dict, polls, increasing, files,
                   file_pathes, args, downloads>>
    /\ UNCHANGED exceptExport

\* one turn of `for file_name in files`: the GET of the file, saved under save_dir
Download ==
    /\ epc = "download"
    /\ files # <<>>
    /\ \E st \in {200, 500} :
          IF WebCheckForError(Response(st, TRUE, Absent, Absent)) # "ok"
          THEN /\ EndExport("ServerError")
               /\ UNCHANGED <<files, file_pathes>>
          ELSE /\ file_pathes' = Append(file_pathes, Join(args.save_dir, Head(files)))
               /\ files' = Tail(files)
               /\ UNCHANGED <<epc, eexc>>
    /\ downloads' = Append(downloads, Head(files))
    /\ UNCHANGED <<posted, sleep, acc_sleep, resp_dict, polls, increasing, args>>
    /\ UNCHANGED exceptExport

\* return file_pathes
ReturnPathes ==
    /\ epc = "download"
    /\ files = <<>>
    /\ epc' = "returned"
    /\ UNCHANGED <<posted, sleep, acc_sleep, resp_dict, polls, increasing,
                   files, file_pathes, eexc, args, downloads>>
    /\ UNCHANGED exceptExport

ExportInit ==
    /\ epc = "start"
    /\ posted = FALSE
    /\ sleep = One
    /\ acc_sleep = Zero
    /\ resp_dict = NoStatus
    /\ polls = 0
    /\ increasing = TRUE
    /\ files = <<>>
    /\ file_pathes = <<>>
    /\ eexc = NoException
    /\ args = NoArgs
    /\ downloads = <<>>

NextExport == Submit \/ Poll \/ Sleep \/ Download \/ ReturnPathes

(***************************************************************************)
(* Manager.wait_for_server_stop and Manager.wait_for_server_start of       *)
(* src/environment_manager.py. Time is counted in whole seconds since t0;  *)
(* timedelta.seconds is the seconds within the day, the days being kept in *)
(* timedelta.days, and the day is scaled down to SecondsPerDay seconds.    *)
(***************************************************************************)
\* the longest the clock is followed
MaxElapsed == 2 * SecondsPerDay

\* (arrow.now() - t0).seconds
Seconds(elapsed) == elapsed % SecondsPerDay

\* the condition of the while loop
WithinTimeout(elapsed, timeout) == Seconds(elapsed) <= timeout

\* is_server_running() gives what the call waits for
Awaited(awaited, running) == IF awaited = "stop" THEN ~running ELSE running

\* wait_for_server_stop(timeout) or wait_for_server_start(timeout): t0 = arrow.now()
WaitCall ==
    /\ w_pc = "start"
    /\ \E awaited \in {"stop", "start"}, timeout \in 0..MaxTimeout :
          w_args' = [awaited |-> awaited, timeout |-> timeout]
    /\ w_pc' = "test"
    /\ UNCHANGED <<w_elapsed, w_running, w_checks, w_result>>
    /\ UNCHANGED exceptWait

\* while (arrow.now() - t0).seconds <= timeout: ... return False
WaitTest ==
    /\ w_pc = "test"
    /\ IF WithinTimeout(w_elapsed, w_args.timeout)
       THEN w_pc' = "check" /\ UNCHANGED w_result
       ELSE w_pc' = "returned" /\ w_result' = <<FALSE>>
    /\ UNCHANGED <<w_args, w_elapsed, w_running, w_checks>>
    /\ UNCHANGED exceptWait

\* if [not] self.is_server_running(): return True
WaitCheck ==
    /\ w_pc = "check"
    /\ w_checks' = w_checks + 1
    /\ IF Awaited(w_args.awaited, w_running)
       THEN w_pc' = "returned" /\ w_result' = <<TRUE>>
       ELSE w_pc' = "sleep" /\ UNCHANGED w_result
    /\ UNCHANGED <<w_args, w_elapsed, w_running>>
    /\ UNCHANGED exceptWait

\* time.sleep(1): one second at least has passed when the loop tests again
WaitSleep ==
    /\ w_pc = "sleep"
    /\ \E d \in {1, 2} :
          /\ w_elapsed + d <= MaxElapsed
          /\ w_elapsed' = w_elapsed + d
    /\ w_pc' = "test"
    /\ UNCHANGED <<w_args, w_running, w_checks, w_result>>
    /\ UNCHANGED exceptWait

\* the server process starts or ends, whenever it does
ServerChanges ==
    /\ w_pc # "returned"
    /\ w_running' = ~w_running
    /\ UNCHANGED <<w_pc, w_args, w_elapsed, w_checks, w_result>>
    /\ UNCHANGED exceptWait

WaitInit ==
    /\ w_pc = "start"
    /\ w_args = [awaited |-> "-", timeout |-> 0]
    /\ w_elapsed = 0
    /\ w_running = TRUE
    /\ w_checks = 0
    /\ w_result = <<>>

NextWait == WaitCall \/ WaitTest \/ WaitCheck \/ WaitSleep \/ ServerChanges

(***************************************************************************)
(* src/axxon_autotest_loggers.py: configure_loggers and the emit of        *)
(* AxxonSocketHandler. The handlers of the two loggers are kept by class;  *)
(* what the file, stdout and report handlers write is not part of the      *)
(* state. TCPMessagesSocket is a connection that is open or not: connect   *)
(* opens it or fails, send_msg raises on a connection that is not open or  *)
(* that breaks, disconnect closes it.                                      *)
(***************************************************************************)
LoggerNames == {"axxon", "axxonnext"}

\* logging.DEBUG .. logging.CRITICAL, and a level of the user's own
Levels == {"DEBUG", "INFO", "WARNING", "ERROR", "CRITICAL", "CUSTOM"}

\* the messages of a record: text str(msg) converts, and text with letters
\* outside ASCII, as a unicode, on which str(msg) raises UnicodeEncodeError
Texts == {"ascii", "unicode"}

\* what the outside decides during one emit: whether connect opens the
\* connection, whether self.format(record) returns, whether send_msg gets through
Environments ==
    [connect : {"ok", "fails"}, format : {"ok", "raises"}, send_msg : {"ok", "raises"}]

NotSent == [content_type |-> "-", text |-> "-", newline |-> FALSE]

\* ContentType with a fault injected: CRITICAL records are sent as text
ContentTypeErrorOnly(levelno) == IF levelno = "ERROR" THEN "exception" ELSE "text"

\* lines 154-158
ContentType(levelno) ==
    IF levelno \in {"CRITICAL", "ERROR"} THEN "exception" ELSE "text"

\* the except block of emit: the report on sys.__stdout__, then disconnect()
OnException == <<"report", "disconnect">>

\* _connect(): whether the connection is open after it; what connect raises
\* is dropped, and exception_of_fail=False asks it not to raise
Connect(env) == env.connect = "ok"

\* TCPMessagesSocket.send_msg: "ok", or "raises" when the connection is not
\* open or breaks
SendMsg(open, env) == IF open THEN env.send_msg ELSE "raises"

\* AxxonSocketHandler.emit(record) on a connection that is open or not: the
\* calls it makes in order, the message it has sent, the state of the
\* connection it leaves, and how it ends
SocketEmit(connected, record, env) ==
    LET first == IF connected THEN <<>> ELSE <<"connect">>
        open == connected \/ Connect(env)
        failed(steps) == [steps |-> first \o steps \o OnException, sent |-> NotSent,
                          connected |-> FALSE, outcome |-> "returned"]
    IN  IF env.format = "raises" THEN failed(<<"format">>)
        ELSE IF record.msg = "unicode" THEN failed(<<"format", "str">>)
        ELSE IF SendMsg(open, env) = "raises"
        THEN failed(<<"format", "str", "send_msg">>)
        ELSE [steps |-> first \o <<"format", "str", "send_msg">>,
              sent |-> [content_type |-> ContentType(record.levelno),
                        text |-> record.msg,
                        newline |-> ContentType(record.levelno) = "text"],
              connected |-> TRUE, outcome |-> "returned"]

\* the record passes the handlers of its logger; the AxxonSocketHandler, when
\* the logger has it, is the one handler_socket object of both loggers
Handle(name, record) ==
    IF \E i \in 1..Len(lg_handlers'[name]) : lg_handlers'[name][i] = "AxxonSocketHandler"
    THEN \E env \in Environments :
            /\ sk_emit' = [levelno |-> record.levelno, msg |-> record.msg,
                           was_connected |-> sk_connected,
                           steps |-> SocketEmit(sk_connected, record, env).steps,
                           sent |-> SocketEmit(sk_connected, record, env).sent,
                           outcome |-> SocketEmit(sk_connected, record, env).outcome]
            /\ sk_connected' = SocketEmit(sk_connected, record, env).connected
            /\ sk_emits' = sk_emits + 1
    ELSE UNCHANGED <<sk_emit, sk_connected, sk_emits>>

\* AlreadyConfigured with a fault injected: the loggers are configured again
AlreadyConfiguredNever(handlers) == FALSE

\* line 216: if logger.handlers
AlreadyConfigured(handlers) == handlers["axxon"] # <<>>

\* lines 229-250: the four handlers; a NullHandler stands in for the file
\* handler or the socket handler that could not be made
NewHandlers(file_ok, socket_ok) ==
    << IF file_ok THEN "FileHandler" ELSE "NullHandler",
       "StreamHandler",
       "RobotFrameworkHandler",
       IF socket_ok THEN "AxxonSocketHandler" ELSE "NullHandler" >>

\* configure_loggers(), with the record it logs at its end
ConfigureLoggers ==
    /\ lg_calls < MaxConfigureCalls
    /\ lg_calls' = lg_calls + 1
    /\ IF AlreadyConfigured(lg_handlers)
       THEN UNCHANGED <<lg_handlers, lg_filters>>
       ELSE \E file_ok, socket_ok \in BOOLEAN :
               /\ lg_handlers' = [n \in LoggerNames |->
                                     lg_handlers[n] \o NewHandlers(file_ok, socket_ok)]
               /\ lg_filters' = [n \in LoggerNames |->
                                     Append(lg_filters[n], "RelevantMessagesFilter")]
    /\ Handle("axxon", [levelno |-> "DEBUG", msg |-> "ascii"])
    /\ UNCHANGED exceptLogging

\* logging.getLogger(name).log(level, msg) by the program
Log ==
    /\ sk_emits < MaxEmits
    /\ UNCHANGED <<lg_handlers, lg_filters, lg_calls>>
    /\ \E name \in LoggerNames, levelno \in Levels, msg \in Texts :
          Handle(name, [levelno |-> levelno, msg |-> msg])
    /\ UNCHANGED exceptLogging

LoggingInit ==
    /\ lg_handlers = [n \in LoggerNames |-> <<>>]
    /\ lg_filters = [n \in LoggerNames |-> <<>>]
    /\ lg_calls = 0
    /\ sk_connected = FALSE
    /\ sk_emit = [levelno |-> "-", msg |-> "-", was_connected |-> FALSE, steps |-> <<>>,
                  sent |-> NotSent, outcome |-> "-"]
    /\ sk_emits = 0

NextLogging == ConfigureLoggers \/ Log

(***************************************************************************)
(* The operations of RsgHttpApi a thread may call.                         *)
(***************************************************************************)
\* get_camera(display_id) is <<"get_camera", "Camera", form, n>>: the display
\* id n given as a number (form "int") or as its text (form "str")
GetCameraOps == {<<"get_camera", "Camera", form, n>> : form \in {"int", "str"}, n \in Ids}


NoOp == <<"-", "-">>

TypeOf(t) == op[t][2]

\* the id the server gives the next object of a type: the lowest one not in use
NewId(ty) == CHOOSE id \in Ids \ coll[ty] : \A x \in Ids \ coll[ty] : id <= x

InWindow(t) == pc[t] \in {"before", "post", "after"}

\* a request as the history keeps it: the kind of the request (FLUSH is the
\* POST of flush) and whether check_for_error let its response pass
Request(kind, r) == [request |-> kind, ok |-> RsgCheckForError(r) = "ok"]

\* Raise with a fault injected: the exception leaves the lock as it is
RaiseHolding(t, e) ==
    /\ pc' = [pc EXCEPT ![t] = "raised"]
    /\ exc' = [exc EXCEPT ![t] = e]
    /\ locks' = locks

\* an exception leaves the operation; inside `with self.locks[name]` the lock is released
Raise(t, e) ==
    /\ pc' = [pc EXCEPT ![t] = "raised"]
    /\ exc' = [exc EXCEPT ![t] = e]
    /\ locks' = IF InWindow(t)
                THEN [locks EXCEPT ![LockKey(inst[t], TypeOf(t))] = 0]
                ELSE locks

Call(t, o) ==
    /\ UNCHANGED otherVars
    /\ pc[t] = "idle"
    /\ op' = [op EXCEPT ![t] = o]
    /\ pc' = [pc EXCEPT ![t] = CASE o[1] = "create" -> "acquire"
                                 [] o[1] = "delete_all" -> "delete"
                                 [] o[1] = "get_camera" -> "get"
                                 [] o[1] = "flush" -> "flush"
                                 [] OTHER -> "send"]
    /\ UNCHANGED <<coll, dirty, locks, inst, before, after, created, result,
                   exc, lastMsg, tainted, foreign, calls, prev, sent>>

\* RsgHttpApi(...): the thread constructs an RsgHttpApi of its own, whose
\* __init__ makes new locks, and calls the server through it from now on
NewRsgHttpApi(t) ==
    /\ UNCHANGED otherVars
    /\ pc[t] = "idle"
    /\ inst[t] = 1
    /\ \E i \in Instances \ {inst[u] : u \in Threads} :
          inst' = [inst EXCEPT ![t] = i]
    /\ UNCHANGED <<coll, dirty, locks, pc, op, before, after, created, result,
                   exc, lastMsg, tainted, foreign, calls, prev, sent>>

\* get_new_object: `with self.locks[name]:` blocks until the lock is free
Acquire(t) ==
    /\ UNCHANGED otherVars
    /\ pc[t] = "acquire"
    /\ LockFree(LockKey(inst[t], TypeOf(t)))
    /\ locks' = [locks EXCEPT ![LockKey(inst[t], TypeOf(t))] = t]
    /\ pc' = [pc EXCEPT ![t] = "before"]
    /\ UNCHANGED <<coll, dirty, inst, op, before, after, created, result, exc,
                   lastMsg, tainted, foreign, calls, prev, sent>>

\* get_new_object: objects_before = function()
SnapshotBefore(t) ==
    /\ UNCHANGED otherVars
    /\ pc[t] = "before"
    /\ \E r \in PlainAnswers :
        /\ lastMsg' = [lastMsg EXCEPT ![t] = r.Message]
        /\ sent' = [sent EXCEPT ![t] = Append(@, Request("GET", r))]
        /\ IF RsgCheckForError(r) = "ok"
           THEN /\ before' = [before EXCEPT ![t] = coll[TypeOf(t)]]
                /\ pc' = [pc EXCEPT ![t] = "post"]
                /\ UNCHANGED <<locks, exc>>
           ELSE /\ Raise(t, RsgCheckForError(r))
                /\ UNCHANGED before
    /\ UNCHANGED <<coll, dirty, inst, op, after, created, result, tainted, foreign, calls, prev>>

\* the body of `with self.get_new_object(...) as a:`, the POST that creates
PostCreate(t) ==
    /\ UNCHANGED otherVars
    /\ pc[t] = "post"
    /\ \E r \in CreateAnswers(TypeOf(t)) :
        /\ lastMsg' = [lastMsg EXCEPT ![t] = r.Message]
        /\ sent' = [sent EXCEPT ![t] = Append(@, Request("POST", r))]
        /\ IF RsgCheckForError(r) = "ok"
           THEN /\ coll' = [coll EXCEPT ![TypeOf(t)] = @ \cup {NewId(TypeOf(t))}]
                /\ created' = [created EXCEPT ![t] = NewId(TypeOf(t))]
                /\ dirty' = TRUE
                /\ pc' = [pc EXCEPT ![t] = "after"]
                /\ UNCHANGED <<locks, exc>>
           ELSE /\ Raise(t, RsgCheckForError(r))
                /\ UNCHANGED <<coll, created, dirty>>
    /\ UNCHANGED <<inst, op, before, after, result, tainted,
                   foreign, calls, prev>>

\* get_new_object: objects_after = function(), then the lock is released
SnapshotAfter(t) ==
    /\ UNCHANGED otherVars
    /\ pc[t] = "after"
    /\ \E r \in PlainAnswers :
        /\ lastMsg' = [lastMsg EXCEPT ![t] = r.Message]
        /\ sent' = [sent EXCEPT ![t] = Append(@, Request("GET", r))]
        /\ IF RsgCheckForError(r) = "ok"
           THEN /\ after' = [after EXCEPT ![t] = coll[TypeOf(t)]]
                /\ pc' = [pc EXCEPT ![t] = "diff"]
                /\ locks' = [locks EXCEPT ![LockKey(inst[t], TypeOf(t))] = 0]
                /\ UNCHANGED exc
           ELSE /\ Raise(t, RsgCheckForError(r))
                /\ UNCHANGED after
    /\ UNCHANGED <<coll, dirty, inst, op, before, created, result, tainted, foreign, calls, prev>>

\* ObjectsNew with a fault injected: every element in which the snapshots differ
ObjectsNewSymmetric(objects_before, objects_after) ==
    (objects_after \ objects_before) \cup (objects_before \ objects_after)

\* get_new_object: objects_new = list(set(objects_after) - set(objects_before))
ObjectsNew(objects_before, objects_after) == objects_after \ objects_before

\* get_new_object: assert len(objects_new) == 1; a.created_object = objects_new[0]
Diff(t) ==
    /\ UNCHANGED otherVars
    /\ pc[t] = "diff"
    /\ LET objects_new == ObjectsNew(before[t], after[t]) IN
       IF Cardinality(objects_new) = 1
       THEN /\ result' = [result EXCEPT ![t] = CHOOSE x \in objects_new : TRUE]
            /\ pc' = [pc EXCEPT ![t] = IF TypeOf(t) = "Archive" THEN "flush"
                                        ELSE "put"]
            /\ UNCHANGED <<locks, exc>>
       ELSE /\ Raise(t, "AssertionError")
            /\ UNCHANGED result
    \* the generator ends: its locals are gone
    /\ before' = [before EXCEPT ![t] = {}]
    /\ after' = [after EXCEPT ![t] = {}]
    /\ UNCHANGED <<coll, dirty, inst, op, created, lastMsg, tainted, foreign, calls, prev, sent>>

\* create_camera, create_detector: the PUT of the remaining settings
PutUpdate(t) ==
    /\ UNCHANGED otherVars
    /\ pc[t] = "put"
    /\ \E r \in PlainAnswers :
        /\ lastMsg' = [lastMsg EXCEPT ![t] = r.Message]
        /\ sent' = [sent EXCEPT ![t] = Append(@, Request("PUT", r))]
        /\ IF RsgCheckForError(r) = "ok"
           THEN /\ dirty' = TRUE
                /\ pc' = [pc EXCEPT ![t] = "flush"]
                /\ UNCHANGED <<locks, exc>>
           ELSE /\ Raise(t, RsgCheckForError(r))
                /\ UNCHANGED dirty
    /\ UNCHANGED <<coll, inst, op, before, after, created, result, tainted, foreign, calls, prev>>

\* delete_all_cameras, delete_all_archives, delete_all_detectors: the DELETE
DeleteAll(t) ==
    /\ UNCHANGED otherVars
    /\ pc[t] = "delete"
    /\ \E r \in DeleteAllAnswers(TypeOf(t)) :
        /\ lastMsg' = [lastMsg EXCEPT ![t] = r.Message]
        /\ sent' = [sent EXCEPT ![t] = Append(@, Request("DELETE", r))]
        /\ IF r.Result = "Success"
           THEN /\ coll' = [coll EXCEPT ![TypeOf(t)] = {}]
                /\ dirty' = TRUE
                /\ tainted' = [tainted EXCEPT ![TypeOf(t)] = TRUE]
           ELSE UNCHANGED <<coll, dirty, tainted>>
        /\ IF RsgCheckForError(r) = "ok"
           THEN /\ pc' = [pc EXCEPT ![t] = "flush"]
                /\ UNCHANGED <<locks, exc>>
           ELSE Raise(t, RsgCheckForError(r))
    /\ UNCHANGED <<inst, op, before, after, created, result,
                   foreign, calls, prev>>

\* flush, and the self.flush() that ends every mutating operation
Flush(t) ==
    /\ UNCHANGED otherVars
    /\ pc[t] = "flush"
    /\ \E r \in FlushAnswers :
        /\ lastMsg' = [lastMsg EXCEPT ![t] = r.Message]
        /\ sent' = [sent EXCEPT ![t] = Append(@, Request("FLUSH", r))]
        /\ dirty' = IF r.Result = "Success" THEN FALSE ELSE dirty
        /\ IF RsgCheckForError(r) = "ok"
           THEN /\ pc' = [pc EXCEPT ![t] =
                        IF op[t][1] = "create" /\ TypeOf(t) # "Camera"
                        THEN "info" ELSE "done"]
                /\ UNCHANGED <<locks, exc>>
           ELSE Raise(t, RsgCheckForError(r))
    /\ UNCHANGED <<coll, inst, op, before, after, created, result, tainted, foreign, calls, prev>>

\* create_archive, create_detector: logger.debug(pretty_dict(self.get_info(...)))
GetInfo(t) ==
    /\ UNCHANGED otherVars
    /\ pc[t] = "info"
    /\ \E r \in PlainAnswers :
        /\ lastMsg' = [lastMsg EXCEPT ![t] = r.Message]
        /\ sent' = [sent EXCEPT ![t] = Append(@, Request("GET", r))]
        /\ IF RsgCheckForError(r) = "ok"
           THEN /\ pc' = [pc EXCEPT ![t] = "done"]
                /\ UNCHANGED <<locks, exc>>
           ELSE Raise(t, RsgCheckForError(r))
    /\ UNCHANGED <<coll, dirty, inst, op, before, after, created, result, tainted, foreign, calls, prev>>

\* the Id the server lists camera n with
ServerCameraId(n) ==
    Unicode(<<"hosts", "/", "N1", "/", "DeviceIpint", ".", ToString(n)>>)

\* get_cameras: Camera(item['Id']) for the camera n of the server
CameraOf(n) == AxxonObject("Camera", ServerCameraId(n))

\* the argument of get_camera
DisplayIdArg(o) == IF o[3] = "int" THEN PyInt(o[4]) ELSE Str(<<ToString(o[4])>>)

\* CamerasWith with a fault injected: display_id is compared as it was given
CamerasWithAsGiven(cameras, display_id) ==
    {c \in cameras : DisplayId(CameraOf(c)) = display_id}

\* get_camera: [c for c in self.get_cameras() if c.display_id == int(display_id)]
CamerasWith(cameras, display_id) ==
    {c \in cameras : DisplayId(CameraOf(c)) =
                        (IF IsInt(display_id) THEN display_id ELSE IntOf(Text(display_id)))}

\* get_camera: the list of the cameras, the choice, the assert
GetCamera(t) ==
    /\ UNCHANGED otherVars
    /\ pc[t] = "get"
    /\ \E r \in PlainAnswers :
        /\ lastMsg' = [lastMsg EXCEPT ![t] = r.Message]
        /\ sent' = [sent EXCEPT ![t] = Append(@, Request("GET", r))]
        /\ IF RsgCheckForError(r) # "ok"
           THEN Raise(t, RsgCheckForError(r)) /\ UNCHANGED result
           ELSE LET cameras == CamerasWith(coll["Camera"], DisplayIdArg(op[t])) IN
                IF Cardinality(cameras) = 1
                THEN /\ result' = [result EXCEPT ![t] = CHOOSE c \in cameras : TRUE]
                     /\ pc' = [pc EXCEPT ![t] = "done"]
                     /\ UNCHANGED <<locks, exc>>
                ELSE Raise(t, "AssertionError") /\ UNCHANGED result
    /\ UNCHANGED <<coll, dirty, inst, op, before, after, created, tainted, foreign,
                   calls, prev>>

(***************************************************************************)
(* update_detector, delete_vmda_data, delete_camera, bind_camera_to_archive *)
(* and start_import: one request after the other, each checked by          *)
(* check_for_error before the next one is sent.                            *)
(***************************************************************************)
Ops == ({"create", "delete_all"} \X ObjectTypes) \cup {<<"flush", "-">>} \cup GetCameraOps

\* delete_vmda_data(camera) and delete_camera(camera, remove_vmda_data) are
\* <<name, "Camera", remove_vmda_data, n>> for the camera n
SequenceOps ==
    {<<"update_detector", "Detector">>, <<"bind_camera_to_archive", "-">>,
     <<"start_import", "-">>}
    \cup {<<"delete_vmda_data", "Camera", TRUE, n>> : n \in Ids}
    \cup {<<"delete_camera", "Camera", v, n>> : v \in BOOLEAN, n \in Ids}

Req(kind, path) == [kind |-> kind, path |-> path]

\* Requests with a fault injected: delete_camera does not flush its own DELETE
RequestsVmdaFlushOnly(o) ==
    IF o[1] = "delete_camera"
    THEN (IF o[3] THEN <<Req("DELETE", "/rsg/vmda/data"), Req("FLUSH", "/rsg")>> ELSE <<>>)
         \o <<Req("DELETE", "/rsg/ipint")>>
    ELSE <<Req("POST", "/rsg/binding"), Req("FLUSH", "/rsg")>>

\* the requests of an operation, in the order of its statements
Requests(o) ==
    CASE o[1] = "update_detector" ->
            <<Req("PUT", "/rsg/detector"), Req("FLUSH", "/rsg"), Req("GET", "/rsg/detector")>>
      [] o[1] = "delete_vmda_data" ->
            <<Req("DELETE", "/rsg/vmda/data"), Req("FLUSH", "/rsg")>>
      [] o[1] = "delete_camera" ->
            (IF o[3] THEN <<Req("DELETE", "/rsg/vmda/data"), Req("FLUSH", "/rsg")>> ELSE <<>>)
            \o <<Req("DELETE", "/rsg/ipint"), Req("FLUSH", "/rsg")>>
      [] o[1] = "bind_camera_to_archive" ->
            <<Req("POST", "/rsg/binding"), Req("FLUSH", "/rsg")>>
      [] OTHER ->
            <<Req("POST", "/rsg/binding/replication"), Req("FLUSH", "/rsg")>>

\* DELETE with the id of one camera
DeleteAnswers(n) ==
    IF n \in coll["Camera"] THEN {Ok, ServerFailure}
    ELSE {Response(st, TRUE, "Failed", NothingToDelete("Camera")) : st \in FailureStatuses}
         \cup {ServerFailure}

Answers(o, req) ==
    CASE req.kind = "FLUSH" -> FlushAnswers
      [] req.kind = "DELETE" -> DeleteAnswers(o[4])
      [] OTHER -> PlainAnswers

\* the next statement of the operation: its request, the check of the answer
Send(t) ==
    /\ UNCHANGED otherVars
    /\ pc[t] = "send"
    /\ LET req == Requests(op[t])[Len(sent[t]) + 1] IN
       \E r \in Answers(op[t], req) :
        /\ lastMsg' = [lastMsg EXCEPT ![t] = r.Message]
        /\ sent' = [sent EXCEPT ![t] = Append(@, Request(req.kind, r))]
        /\ IF r.Result = "Success" /\ req = Req("DELETE", "/rsg/ipint")
           THEN /\ coll' = [coll EXCEPT !["Camera"] = @ \ {op[t][4]}]
                /\ tainted' = [tainted EXCEPT !["Camera"] = TRUE]
           ELSE UNCHANGED <<coll, tainted>>
        /\ dirty' = IF r.Result # "Success" THEN dirty
                    ELSE IF req.kind = "FLUSH" THEN FALSE
                    ELSE IF req.kind = "GET" THEN dirty
                    ELSE TRUE
        /\ IF RsgCheckForError(r) # "ok"
           THEN Raise(t, RsgCheckForError(r))
           ELSE /\ pc' = [pc EXCEPT ![t] =
                        IF Len(sent[t]) + 1 = Len(Requests(op[t])) THEN "done" ELSE "send"]
                /\ UNCHANGED <<locks, exc>>
    /\ UNCHANGED <<inst, op, before, after, created, result, foreign, calls, prev>>

\* the operation returns to its caller, or its exception reaches the caller, and
\* the thread is free to call the next operation
Return(t) ==
    /\ UNCHANGED otherVars
    /\ pc[t] \in {"done", "raised"}
    /\ calls < MaxCalls
    /\ calls' = calls + 1
    /\ prev' = <<op[t][1], op[t][2], pc[t], result[t]>>
    /\ pc' = [pc EXCEPT ![t] = "idle"]
    /\ op' = [op EXCEPT ![t] = NoOp]
    /\ before' = [before EXCEPT ![t] = {}]
    /\ after' = [after EXCEPT ![t] = {}]
    /\ created' = [created EXCEPT ![t] = 0]
    /\ result' = [result EXCEPT ![t] = 0]
    /\ exc' = [exc EXCEPT ![t] = ""]
    /\ lastMsg' = [lastMsg EXCEPT ![t] = ""]
    /\ sent' = [sent EXCEPT ![t] = <<>>]
    /\ UNCHANGED <<coll, dirty, locks, inst, tainted, foreign>>

(***************************************************************************)
(* Other clients of the same server (another program, an operator at the   *)
(* GUI): they create and delete objects without this instance's locks.     *)
(***************************************************************************)
ForeignCreate(ty) ==
    /\ UNCHANGED otherVars
    /\ foreign < MaxForeign
    /\ Ids \ coll[ty] # {}
    /\ coll' = [coll EXCEPT ![ty] = @ \cup {NewId(ty)}]
    /\ tainted' = [tainted EXCEPT ![ty] = TRUE]
    /\ foreign' = foreign + 1
    /\ dirty' = TRUE
    /\ UNCHANGED <<locks, inst, pc, op, before, after, created, result, exc,
                   lastMsg, calls, prev, sent>>

ForeignDelete(ty) ==
    /\ UNCHANGED otherVars
    /\ foreign < MaxForeign
    /\ \E id \in coll[ty] :
         coll' = [coll EXCEPT ![ty] = @ \ {id}]
    /\ tainted' = [tainted EXCEPT ![ty] = TRUE]
    /\ foreign' = foreign + 1
    /\ dirty' = TRUE
    /\ UNCHANGED <<locks, inst, pc, op, before, after, created, result, exc,
                   lastMsg, calls, prev, sent>>

ThreadInit ==
    /\ coll = [ty \in ObjectTypes |-> {}]
    /\ dirty = FALSE
    /\ locks = [k \in Instances \X ObjectTypes |-> 0]
    /\ inst = [t \in Threads |-> 1]
    /\ pc = [t \in Threads |-> "idle"]
    /\ op = [t \in Threads |-> NoOp]
    /\ before = [t \in Threads |-> {}]
    /\ after = [t \in Threads |-> {}]
    /\ created = [t \in Threads |-> 0]
    /\ result = [t \in Threads |-> 0]
    /\ exc = [t \in Threads |-> ""]
    /\ lastMsg = [t \in Threads |-> ""]
    /\ calls = 0
    /\ prev = <<"-", "-", "-", 0>>
    /\ tainted = [ty \in ObjectTypes |-> FALSE]
    /\ foreign = 0
    /\ sent = [t \in Threads |-> <<>>]

Init ==
    /\ ThreadInit /\ HttpInit /\ ExportInit /\ ObjectsInit /\ IntervalsInit
    /\ WaitInit /\ LoggingInit

CreateOps == {"create"} \X ObjectTypes

(***************************************************************************)
(* Spec: the threads of one program run the statement                      *)
(* `with self.get_new_object(cls) as a: self.post(...)` of create_camera,  *)
(* create_archive and create_detector concurrently, one statement each,    *)
(* while other clients modify the server. What follows the statement in    *)
(* these operations touches neither the locks nor the collections and is   *)
(* part of SpecOps.                                                        *)
(***************************************************************************)
Next ==
    \/ \E t \in Threads, o \in CreateOps : Call(t, o)
    \/ \E t \in Threads : Acquire(t)
    \/ \E t \in Threads : SnapshotBefore(t)
    \/ \E t \in Threads : PostCreate(t)
    \/ \E t \in Threads : SnapshotAfter(t)
    \/ \E t \in Threads : Diff(t)
    \/ \E ty \in ObjectTypes : ForeignCreate(ty)
    \/ \E ty \in ObjectTypes : ForeignDelete(ty)

Spec == Init /\ [][Next]_vars

(***************************************************************************)
(* SpecInstances: the threads run the same statement, each through the     *)
(* RsgHttpApi of the program or through one it has constructed itself;     *)
(* nobody else modifies the server.                                        *)
(***************************************************************************)
NextInstances ==
    \/ \E t \in Threads : NewRsgHttpApi(t)
    \/ \E t \in Threads, o \in CreateOps : Call(t, o)
    \/ \E t \in Threads : Acquire(t)
    \/ \E t \in Threads : SnapshotBefore(t)
    \/ \E t \in Threads : PostCreate(t)
    \/ \E t \in Threads : SnapshotAfter(t)
    \/ \E t \in Threads : Diff(t)

SpecInstances == Init /\ [][NextInstances]_vars

(***************************************************************************)
(* SpecOps: a single calling thread runs whole operations of RsgHttpApi,   *)
(* one after the other, while other clients modify the server.             *)
(***************************************************************************)
MainThread == CHOOSE t \in Threads : \A u \in Threads : t <= u

NextOps ==
    \/ \E o \in Ops : Call(MainThread, o)
    \/ Acquire(MainThread)
    \/ SnapshotBefore(MainThread)
    \/ PostCreate(MainThread)
    \/ SnapshotAfter(MainThread)
    \/ Diff(MainThread)
    \/ PutUpdate(MainThread)
    \/ DeleteAll(MainThread)
    \/ Flush(MainThread)
    \/ GetInfo(MainThread)
    \/ GetCamera(MainThread)
    \/ Return(MainThread)
    \/ \E ty \in ObjectTypes : ForeignCreate(ty)
    \/ \E ty \in ObjectTypes : ForeignDelete(ty)

SpecOps == Init /\ [][NextOps]_vars

(***************************************************************************)
(* SpecMutations: the calling thread runs one mutating operation of        *)
(* RsgHttpApi, any of them, against a server that other clients modify     *)
(* before, during and after the operation.                                 *)
(***************************************************************************)
MutatingOps == (({"create", "delete_all"} \X ObjectTypes) \cup SequenceOps)

NextMutations ==
    \/ \E o \in MutatingOps : calls = 0 /\ Call(MainThread, o)
    \/ Acquire(MainThread)
    \/ SnapshotBefore(MainThread)
    \/ PostCreate(MainThread)
    \/ SnapshotAfter(MainThread)
    \/ Diff(MainThread)
    \/ PutUpdate(MainThread)
    \/ DeleteAll(MainThread)
    \/ Flush(MainThread)
    \/ GetInfo(MainThread)
    \/ Send(MainThread)
    \/ Return(MainThread)
    \/ \E ty \in ObjectTypes : ForeignCreate(ty)
    \/ \E ty \in ObjectTypes : ForeignDelete(ty)

SpecMutations == Init /\ [][NextMutations]_vars

(***************************************************************************)
(* SpecHttp: calls of the four verbs, on every kind of connection, with    *)
(* every path and every response.                                          *)
(***************************************************************************)
SpecHttp == Init /\ [][NextHttp]_vars

(***************************************************************************)
(* SpecExport: one call of export_video against a server that answers the  *)
(* status requests with any of StatusBodies.                               *)
(***************************************************************************)
SpecExport == Init /\ [][NextExport]_vars

SpecObjects == Init /\ [][NextObjects]_vars

SpecIntervals == Init /\ [][NextIntervals]_vars

\* SpecWait: one call of wait_for_server_stop or wait_for_server_start while
\* the server process comes and goes
SpecWait == Init /\ [][NextWait]_vars

\* SpecLogging: a program calls configure_loggers() and logs through the two
\* loggers, in any order, while the log collector is reachable or not
SpecLogging == Init /\ [][NextLogging]_vars

\* export_video with a server that answers every request and a time.sleep
\* that returns: no step of the call that can be taken is put off for ever
SpecExportFair ==
    /\ Init
    /\ [][NextExport]_vars
    /\ WF_vars(Poll) /\ WF_vars(Sleep) /\ WF_vars(Download) /\ WF_vars(ReturnPathes)

(***************************************************************************)
(* Claims about get_new_object, checked under Spec.                        *)
(***************************************************************************)
WindowDone(t) == op[t][1] = "create" /\ pc[t] \in {"put", "flush"}

SameLock(t, u) == inst[t] = inst[u] /\ TypeOf(t) = TypeOf(u)

\* C1: when get_new_object compares its two snapshots, if exactly one object
\* is in the snapshot taken after the mutating call and not in the one taken
\* before it, that object becomes a.created_object and the statement ends
\* normally; with no such object, or with more than one, the statement fails
\* (AssertionError) and no object is handed to the caller.
C1_CreateViaDiff ==
    [][\A t \in Threads :
        (pc[t] = "diff" /\ pc'[t] # "diff") =>
            IF Cardinality(after[t] \ before[t]) = 1
            THEN /\ result'[t] \in after[t] \ before[t]
                 /\ pc'[t] \in {"put", "flush"}
                 /\ exc'[t] = ""
            ELSE /\ pc'[t] = "raised"
                 /\ exc'[t] = "AssertionError"
                 /\ result'[t] = 0]_vars

\* one creation got its object from a collection that another client modified,
\* and another creation failed the exactly-one check
C1_Witness ==
    \E t, u \in Threads :
        /\ WindowDone(t) /\ result[t] # 0 /\ tainted[TypeOf(t)]
        /\ pc[u] = "raised" /\ exc[u] = "AssertionError"

\* C2: of the threads that create objects of one type through one RsgHttpApi,
\* at most one at a time is between acquiring the lock of that type and its
\* after-snapshot, and the lock records that thread as its holder.
C2_SameTypeSerialized ==
    /\ \A t, u \in Threads :
        (t # u /\ InWindow(t) /\ InWindow(u)) => ~SameLock(t, u)
    /\ \A t \in Threads :
        InWindow(t) => locks[<<inst[t], TypeOf(t)>>] = t

\* a thread is inside its window while another thread waits for the same lock
C2_Witness ==
    \E t, u \in Threads :
        /\ t # u /\ SameLock(t, u)
        /\ pc[t] = "after" /\ pc[u] = "acquire"

\* C3: as long as nobody but the creating threads has modified the collection
\* of a type, a creation of that type that reaches the comparison sees exactly
\* one new object, the one its own POST created; it is the object handed to
\* the caller; no creation fails the exactly-one check; and no two creations
\* hand out the same object.
C3_DiffNotCorrupted ==
    \A t \in Threads :
        (op[t][1] = "create" /\ ~tainted[TypeOf(t)]) =>
            /\ pc[t] = "diff" => after[t] \ before[t] = {created[t]}
            /\ WindowDone(t) => (result[t] # 0 /\ result[t] = created[t])
            /\ exc[t] # "AssertionError"
            /\ \A u \in Threads :
                (u # t /\ op[u] = op[t] /\ WindowDone(t) /\ WindowDone(u))
                    => result[t] # result[u]

\* two creations of the same type have both handed out their objects
C3_Witness ==
    \E t, u \in Threads :
        /\ t # u /\ op[t] = op[u]
        /\ WindowDone(t) /\ WindowDone(u)
        /\ ~tainted[TypeOf(t)]
        /\ result[t] # 0 /\ result[u] # 0

\* C4: a thread that waits for the lock of a type can take it whenever no
\* thread of its RsgHttpApi is inside the window of that same type, whatever
\* windows of other types are open.
C4_CrossTypeParallel ==
    \A t \in Threads :
        ( /\ pc[t] = "acquire"
          /\ \A u \in Threads : (u # t /\ InWindow(u)) => ~SameLock(t, u) )
        => ENABLED Acquire(t)

\* two threads are inside the windows of two different types at the same time
C4_Witness ==
    \E t, u \in Threads :
        /\ inst[t] = inst[u] /\ TypeOf(t) # TypeOf(u)
        /\ pc[t] \in {"post", "after"} /\ pc[u] \in {"post", "after"}

(***************************************************************************)
(* Claims about the verbs and check_for_error.                             *)
(***************************************************************************)
Sent == Len(httpCall.steps) > 0 /\ httpCall.steps[1] = "request"

Checked == Sent /\ httpCall.steps[Len(httpCall.steps)] = "check_for_error"

\* C5: a call through RsgHttpApi whose response body has Result "Success"
\* returns the response, and one whose body has Result "Failed" and a Message
\* outside the allow-list raises RSGServerError, whatever the HTTP status and
\* the message.
C5_RsgSuccessAndFailed ==
    (httpCall.api = "RsgHttpApi" /\ Sent /\ httpCall.response.json) =>
        /\ httpCall.response.Result = "Success" => httpCall.outcome = "returned"
        /\ ( /\ httpCall.response.Result = "Failed"
             /\ httpCall.response.Message # Absent
             /\ httpCall.response.Message \notin ignored_messages )
           => httpCall.outcome = "RSGServerError"

\* a Success that comes with status 500 is returned
C5_Witness ==
    /\ httpCall.api = "RsgHttpApi" /\ Sent
    /\ httpCall.response.json
    /\ httpCall.response.Result = "Success"
    /\ httpCall.response.status = 500
    /\ httpCall.outcome = "returned"

\* C7 as stated: WebHttpApi raises ServerError on every response whose status
\* is not 2xx, and never on a 2xx response.
C7_RaisesOnNon2xx ==
    (httpCall.api = "WebHttpApi" /\ Sent) =>
        (httpCall.outcome = "ServerError"
            <=> ~(200 <= httpCall.response.status /\ httpCall.response.status < 300))

\* C7, amended: WebHttpApi raises ServerError exactly on the responses whose
\* status is 4xx or 5xx; a response with any other status, 2xx included, is
\* returned.
C7_RaisesOn4xx5xx ==
    (httpCall.api = "WebHttpApi" /\ Sent) =>
        /\ httpCall.outcome = "ServerError"
            <=> (400 <= httpCall.response.status /\ httpCall.response.status <= 599)
        /\ httpCall.outcome # "ServerError" => httpCall.outcome = "returned"

\* a 304 response is returned to the caller of WebHttpApi
C7_Witness ==
    /\ httpCall.api = "WebHttpApi" /\ Sent
    /\ httpCall.response.status = 304
    /\ httpCall.outcome = "returned"

\* C8: a call of any verb with a path that does not start with '/' fails with
\* AssertionError and sends no request; a call with an absolute path sends the
\* request and then passes the response to check_for_error, and the response is
\* returned only if that check_for_error did not raise.
C8_AbsolutePathAndCheck ==
    httpCall.verb \in {"GET", "POST", "PUT", "DELETE"} =>
        /\ ~httpCall.absolute =>
              (httpCall.steps = <<>> /\ httpCall.outcome = "AssertionError")
        /\ httpCall.absolute => Checked
        /\ httpCall.outcome = "returned" =>
              (Checked /\ CheckForError(httpCall.api, httpCall.response) = "ok")

\* a DELETE through RsgHttpApi got a failure and raised instead of returning it
C8_Witness ==
    /\ httpCall.verb = "DELETE" /\ httpCall.api = "RsgHttpApi"
    /\ httpCall.absolute /\ Checked
    /\ httpCall.outcome = "RSGServerError"

(***************************************************************************)
(* Claims about whole operations of RsgHttpApi, checked under SpecOps.     *)
(***************************************************************************)
\* C6: an operation that has just received a response whose Result is not
\* "Success" and whose Message is one of the ignored messages, whatever its
\* HTTP status, has not raised; so delete_all_cameras, delete_all_archives,
\* delete_all_detectors and flush raise only on a response with another
\* message, and end normally when the server has nothing to delete or flush,
\* also when called again.
C6_BenignMessagesAreSuccess ==
    \A t \in Threads :
        /\ lastMsg[t] \in ignored_messages => (pc[t] # "raised" /\ exc[t] = "")
        /\ (op[t][1] \in {"delete_all", "flush"} /\ pc[t] = "raised")
              => (exc[t] = "RSGServerError" /\ lastMsg[t] \notin ignored_messages)
        /\ (op[t][1] = "delete_all" /\ pc[t] = "done")
              => lastMsg[t] \in {"", NothingToFlush}

\* delete_all_detectors has ended normally on "nothing to delete" and then
\* "nothing to flush", right after a delete_all_detectors that ended normally
C6_Witness ==
    /\ prev = <<"delete_all", "Detector", "done", 0>>
    /\ op[MainThread] = <<"delete_all", "Detector">>
    /\ pc[MainThread] = "done"
    /\ lastMsg[MainThread] = NothingToFlush
    /\ coll["Detector"] = {}
    /\ foreign = 0

(***************************************************************************)
(* Claims about export_video, checked under SpecExport.                    *)
(***************************************************************************)
InLoop == epc = "sleep" \/ (epc = "poll" /\ polls > 0)

\* C9: once the job is submitted, export_video goes on polling exactly while
\* the last status reports IN_PROGRESS (only a status request that itself
\* fails ends the call then); the first status with another state ends the
\* loop, and when that state is ERROR or NO_SPACE the call raises an error
\* that carries the error string, the state code and the progress of that
\* status, and no file has been downloaded.
C9_ExportStateMachine ==
    /\ InLoop => (posted /\ resp_dict.state = IN_PROGRESS)
    /\ (polls > 0 /\ resp_dict.state = IN_PROGRESS) =>
          (InLoop \/ (epc = "raised" /\ eexc.kind = "ServerError"))
    /\ (polls > 0 /\ resp_dict.state \in {ERROR, NO_SPACE}) =>
          /\ epc = "raised"
          /\ eexc = [kind |-> "Exception: Error during export",
                     error |-> resp_dict.error,
                     state |-> resp_dict.state,
                     progress |-> resp_dict.progress]
          /\ file_pathes = <<>>
    /\ epc \in {"download", "returned"} => resp_dict.state = DONE

\* after two statuses IN_PROGRESS the third reported NO_SPACE and the call raised
C9_Witness ==
    /\ polls = 3
    /\ Less(One, acc_sleep)
    /\ resp_dict.state = NO_SPACE
    /\ epc = "raised"
    /\ eexc.state = NO_SPACE /\ eexc.error = "export failed"

\* C10: while the progress values reported so far rise strictly within
\* [0, 1], the interval export_video is about to sleep is at least 1 and at
\* most 30 seconds.
C10_SleepWithinLimits ==
    (increasing /\ epc = "sleep") =>
        (~Less(sleep, One) /\ ~Less(Thirty, sleep))

\* with rising progress, a sleep strictly between the limits follows a status
\* whose estimate was above 30 seconds
C10_Witness ==
    /\ increasing /\ epc = "sleep" /\ polls = 3
    /\ Less(One, sleep) /\ Less(sleep, Thirty)
    /\ acc_sleep = <<2, 1>>

Clamp(x) == IF Less(x, One) THEN One ELSE IF Less(Thirty, x) THEN Thirty ELSE x

\* C11: while the job is in progress, the interval export_video is about to
\* sleep is the estimate (1-p)/p * T / 2 computed from the reported progress p
\* and the accumulated sleep T, clamped to [1, 30]: the estimate itself within
\* the range, 1 below 1 and 30 above 30.
C11_SleepIsClampedEstimate ==
    (epc = "sleep" /\ resp_dict.progress # NotANumber /\ resp_dict.progress[1] # 0) =>
        sleep = Clamp(Estimate(resp_dict.progress, acc_sleep))

Ended == epc \in {"returned", "raised"}

\* C12: the status poll is repeated without limit: after a status
\* IN_PROGRESS and the sleep the next status is requested, whatever the number
\* of polls and the time slept; the call leaves the loop only on a status with
\* another state (or on a status request that itself fails); and once such a
\* status is received the call ends, returning or raising.
C12_PollsUntilTerminal ==
    /\ [][/\ epc = "sleep" => epc' = "poll"
          /\ (epc = "poll" /\ epc' \notin {"poll", "sleep"}) =>
                \/ resp_dict'.state # IN_PROGRESS
                \/ (epc' = "raised" /\ eexc'.kind = "ServerError")]_vars
    /\ [](Ended => (polls > 0 \/ eexc.kind # ""))
    /\ (polls > 0 /\ resp_dict.state # IN_PROGRESS) ~> Ended

\* after three statuses IN_PROGRESS and three sleeps the call is about to poll again
C12_Witness ==
    /\ polls = 3 /\ epc = "poll"
    /\ resp_dict.state = IN_PROGRESS
    /\ Less(<<2, 1>>, acc_sleep)

\* C13: on a DONE job the files named in the final status are requested one
\* by one in the order listed, each once per listing, and export_video returns
\* one path per listed file in that order: the name joined to save_dir (as
\* os.path.join joins: under save_dir for a relative name).
C13_FilesInOrder ==
    /\ epc = "download" =>
          /\ downloads \o files = resp_dict.files
          /\ Len(file_pathes) = Len(downloads)
    /\ epc = "returned" =>
          /\ resp_dict.state = DONE
          /\ downloads = resp_dict.files
          /\ Len(file_pathes) = Len(resp_dict.files)
          /\ \A i \in 1..Len(resp_dict.files) :
                LET name == resp_dict.files[i] IN
                file_pathes[i] = IF name \in AbsoluteNames THEN <<name>>
                                 ELSE <<args.save_dir, name>>

\* two files were listed and the call returned their two paths under save_dir
C13_Witness ==
    /\ epc = "returned"
    /\ resp_dict.files = <<"b.mkv", "a.mkv">>
    /\ file_pathes = <<<<"dir", "b.mkv">>, <<"dir", "a.mkv">>>>

\* C20: a call of export_video with a timeout always ends in an error, without
\* a status poll or a download; when the error is the one about the timeout,
\* the job has already been submitted to the server.
C20_TimeoutFailsAfterPost ==
    /\ (epc # "start" /\ args.timeout # "None") =>
          /\ epc = "raised" /\ eexc.kind # ""
          /\ polls = 0 /\ downloads = <<>> /\ file_pathes = <<>>
    /\ eexc.kind = "Exception: TODO" => (args.timeout # "None" /\ posted)
    /\ (epc # "start" /\ args.timeout # "None" /\ posted) =>
          eexc.kind \in {"Exception: TODO", "KeyError"}

\* a call with a timeout was refused after its job had been submitted
C20_Witness ==
    /\ args.timeout = "set" /\ posted
    /\ epc = "raised" /\ eexc.kind = "Exception: TODO"
    /\ polls = 0

(***************************************************************************)
(* Claims about the domain objects, checked under SpecObjects.             *)
(***************************************************************************)
SameTypeAndId(a, b) == a.cls = b.cls /\ PyEq(a.id, b.id)

\* C16: two domain objects are equal if and only if they have the same type
\* and the same id, whatever the camera and the name of a Detector; equal
\* objects have equal hashes; != is the negation of ==.
C16_EqualIffSameTypeAndId ==
    compared.done =>
        /\ compared.eq <=> SameTypeAndId(objects[1], objects[2])
        /\ compared.eq => compared.hash1 = compared.hash2
        /\ compared.ne <=> ~compared.eq

\* what the constructor recorded in built[k] makes
AsBuilt(b) ==
    CASE b.how = "Camera" -> AxxonObject("Camera", b.id)
      [] b.how = "Archive" -> AxxonObject("Archive", b.id)
      [] b.how = "from_display_id" ->
            FromDisplayId(b.node, b.display_id, PyInt(b.channel), PyInt(b.stream))
      [] b.how = "Detector" -> NewDetector(b.id, b.camera, b.name)
      [] OTHER -> NoObject

BothRead == derived[1] # NotRead /\ derived[2] # NotRead

\* the name and the camera of a Detector, nothing for the other classes
Attributes(o) == <<o.name, o.camera>>

\* C17 as stated: the derived identifiers (label among them) of two objects
\* of a class with the same id are the same, reading them leaves the objects
\* as constructed, and a Camera built by from_display_id(node, d, channel,
\* stream) gives back node as its node and d as its display_id.
C17_DerivedAreFunctionsOfId ==
    /\ (BothRead /\ objects[1].cls = objects[2].cls /\ objects[1].id = objects[2].id) =>
          derived[1] = derived[2]
    /\ \A k \in 1..2 : objects[k] = AsBuilt(built[k])
    /\ \A k \in 1..2 :
          (built[k].how = "from_display_id" /\ derived[k] # NotRead) =>
              /\ PyEq(derived[k].node, built[k].node)
              /\ PyEq(derived[k].display_id, built[k].display_id)

\* C17 (amended): the derived identifiers of two objects of a class with the
\* same id are the same, except the label of a Detector, which is the same
\* when name and camera are the same too; reading them leaves the objects as
\* constructed; a Camera built by from_display_id(node, d, channel, stream)
\* gives back, when node has no '/', node as its node and int(d) as its
\* display_id when d is an integer or a numeral.
C17_DerivedFromIdAndIntOfDisplayId ==
    /\ (BothRead /\ objects[1].cls = objects[2].cls /\ objects[1].id = objects[2].id) =>
          /\ [derived[1] EXCEPT !.label = PyNone] = [derived[2] EXCEPT !.label = PyNone]
          /\ (objects[1].cls # "Detector"
              \/ Attributes(objects[1]) = Attributes(objects[2])) =>
                 derived[1].label = derived[2].label
    /\ \A k \in 1..2 : objects[k] = AsBuilt(built[k])
    /\ \A k \in 1..2 :
          (/\ built[k].how = "from_display_id" /\ derived[k] # NotRead
           /\ Len(SplitText(built[k].node.s, "/")) = 1) =>
                  /\ PyEq(derived[k].node, built[k].node)
                  /\ ~IsRaised(IntOf(Text(built[k].display_id))) =>
                        derived[k].display_id = IntOf(Text(built[k].display_id))

\* a Camera built from the text '03' and one built from the number 3 both
\* have the display_id 3
C17_Witness ==
    /\ built[1].how = "from_display_id" /\ built[1].display_id = Str(<<"03">>)
    /\ derived[1] # NotRead /\ derived[1].display_id = PyInt(3)
    /\ derived[1].node = Str(<<"N2">>)
    /\ built[2].how = "from_display_id" /\ built[2].display_id = PyInt(3)
    /\ derived[2] # NotRead /\ derived[2].display_id = PyInt(3)

SameDetector(a, b) ==
    LET Canonical(id) ==
            IF EndsWith(id.s, SourceEndpointVmda)
            THEN SubSeq(id.s, 1, Len(id.s) - Len(SourceEndpointVmda)) \o EventSupplier
            ELSE id.s
    IN Canonical(a) = Canonical(b)

\* C19: every constructed Detector has an id that ends in 'EventSupplier'; an
\* id given in the '.../SourceEndpoint.vmda' form is rewritten to the
\* '.../EventSupplier' form and kept in endpoint; a canonical id is unchanged
\* and endpoint is None; an id in neither form makes the construction fail;
\* and Detectors built from the two forms of one detector are equal.
C19_DetectorIdNormalized ==
    /\ \A k \in 1..2 :
          built[k].how = "Detector" =>
              LET given == built[k].id
                  o == objects[k] IN
              /\ IsObject(o) => EndsWith(o.id.s, EventSupplier)
              /\ EndsWith(given.s, SourceEndpointVmda) =>
                    /\ IsObject(o) /\ o.endpoint = given
                    /\ o.id.s = SubSeq(given.s, 1, Len(given.s) - 3) \o EventSupplier
              /\ EndsWith(given.s, EventSupplier) =>
                    IsObject(o) /\ o.id = given /\ o.endpoint = PyNone
              /\ (~EndsWith(given.s, SourceEndpointVmda) /\ ~EndsWith(given.s, EventSupplier))
                    => IsRaised(o)
    /\ (compared.done /\ built[1].how = "Detector" /\ built[2].how = "Detector"
        /\ SameDetector(built[1].id, built[2].id)) => compared.eq

(***************************************************************************)
(* Claims about get_arch_intervals, checked under SpecIntervals.           *)
(***************************************************************************)
\* how many times x occurs in list
Count(x, list) == Cardinality({i \in 1..Len(list) : list[i] = x})

\* the intervals of the server's answer, each with its time stamps as instants
AsInstants(list) ==
    [i \in 1..Len(list) |->
        [begin |-> TsToArrow(list[i].begin), end |-> TsToArrow(list[i].end)]]

\* C14: the intervals returned with NEWER_FIRST have non-increasing begin
\* times, those returned with OLDER_FIRST non-decreasing ones; the result is
\* a permutation of the intervals the server listed (as instants), and the
\* flag `more` is the server's.
C14_IntervalsSorted ==
    ai_pc = "returned" =>
        LET res == ai_result[1]
            listed == AsInstants(ai_data.intervals) IN
        /\ ai_args.sort_order = NEWER_FIRST =>
              \A i \in 1..(Len(res) - 1) : res[i].begin.instant >= res[i + 1].begin.instant
        /\ ai_args.sort_order = OLDER_FIRST =>
              \A i \in 1..(Len(res) - 1) : res[i].begin.instant <= res[i + 1].begin.instant
        /\ Len(res) = Len(listed)
        /\ \A i \in 1..Len(listed) : Count(listed[i], res) = Count(listed[i], listed)
        /\ ai_result[2] = ai_data.more

\* three intervals listed oldest first, two of them beginning at one instant,
\* were returned newest first
C14_Witness ==
    /\ ai_pc = "returned"
    /\ ai_args.sort_order = NEWER_FIRST
    /\ ai_data.more
    /\ ai_data.intervals = <<[begin |-> Ts(1, -1), end |-> Ts(3, -1)],
                             [begin |-> Ts(1, 0), end |-> Ts(4, -1)],
                             [begin |-> Ts(2, -1), end |-> Ts(3, -1)]>>
    /\ ai_result[1][1].begin = Arrow(2000)

IntervalQueries == {i \in 1..Len(ai_requests) : ai_requests[i].path # "/hosts"}

\* get_nodes() has answered
NodesListed ==
    /\ ai_args.node = PyNone
    /\ \/ ai_pc \in {"query", "returned"}
       \/ ai_pc = "raised" /\ ~(ai_exc = "ServerError" /\ Len(ai_requests) = 1)

\* C15: without a node, the node is the one get_nodes() lists when it lists
\* exactly one; when it lists none or several the call fails and no interval
\* query is sent; with a node given, the node list is not requested.
C15_NodeResolvedOnlyIfUnique ==
    /\ ai_args.node # PyNone =>
          \A i \in 1..Len(ai_requests) : ai_requests[i].path # "/hosts"
    /\ (ai_args.node = PyNone /\ ai_pc # "start" /\ ai_pc # "nodes") =>
          /\ Len(ai_requests) >= 1
          /\ ai_requests[1].path = "/hosts"
    /\ (NodesListed /\ Len(ai_nodes) # 1) =>
          /\ ai_pc = "raised"
          /\ ai_exc = "Exception: Cann't choose node name automatically"
          /\ IntervalQueries = {}
    /\ (NodesListed /\ Len(ai_nodes) = 1) =>
          /\ ai_node = ai_nodes[1]
          /\ \A i \in IntervalQueries :
                SubSeq(ai_requests[i].video_source_id, 1, 1) = ai_nodes[1].s

\* the only node listed was taken and the interval query returned
C15_Witness ==
    /\ ai_args.node = PyNone
    /\ ai_nodes = <<Unicode(<<"N2">>)>>
    /\ ai_pc = "returned"
    /\ Len(ai_requests) = 2

(***************************************************************************)
(* Claims about whole operations of RsgHttpApi, checked under SpecOps.     *)
(***************************************************************************)
\* C18: while nobody else has touched the camera collection, the Camera that
\* create_camera (create_virtual_camera) returns has as display_id the id the
\* server gave the new device; and a following get_camera of that display_id,
\* given as a number or as text, returns an object equal to that Camera
\* whenever it returns, and does return when the camera is still listed and
\* the server answers the request.
C18_CreatedCameraIsFound ==
    /\ [](\A t \in Threads :
            (/\ op[t] = <<"create", "Camera">>
             /\ pc[t] \in {"put", "flush", "done"}
             /\ ~tainted["Camera"]) =>
                DisplayId(CameraOf(result[t])) = PyInt(created[t]))
    /\ [][\A t \in Threads :
            (/\ pc[t] = "get" /\ pc'[t] # "get"
             /\ prev = <<"create", "Camera", "done", op[t][4]>>) =>
                /\ pc'[t] = "done" =>
                      /\ Eq(CameraOf(result'[t]), CameraOf(prev[4]))
                      /\ DisplayId(CameraOf(result'[t])) = PyInt(op[t][4])
                /\ (prev[4] \in coll["Camera"] /\ exc'[t] # "RSGServerError") =>
                      pc'[t] = "done"]_vars

\* create_camera returned camera 1 and get_camera('1') has found it
C18_Witness ==
    /\ prev = <<"create", "Camera", "done", 1>>
    /\ op[MainThread] = <<"get_camera", "Camera", "str", 1>>
    /\ pc[MainThread] = "done"
    /\ result[MainThread] = 1
    /\ ~tainted["Camera"]

(***************************************************************************)
(* Claims about the parameters of the interval query.                      *)
(***************************************************************************)
\* the number add_int_to_dict stores for an argument
AsInt(val) == IF IsInt(val) THEN val ELSE IntOf(Text(val))

\* C21: the interval request carries limit=n when limit=n is given, scale=m
\* when scale=m is given, both when both are given, and no parameter for an
\* argument that is None.
C21_LimitAndScaleSent ==
    \A i \in IntervalQueries :
       LET params == ai_requests[i].params IN
       /\ "limit" \in DOMAIN params <=> ai_args.limit # PyNone
       /\ "scale" \in DOMAIN params <=> ai_args.scale # PyNone
       /\ ai_args.limit # PyNone => params["limit"] = AsInt(ai_args.limit)
       /\ ai_args.scale # PyNone => params["scale"] = AsInt(ai_args.scale)

(***************************************************************************)
(* Claims about the mutating operations of RsgHttpApi, checked under       *)
(* SpecMutations.                                                          *)
(***************************************************************************)
Mutating(request) == request \in {"POST", "PUT", "DELETE"}

\* C22: a mutating operation that returns has sent the flush request after
\* its last mutating request; a request whose answer check_for_error refuses
\* is the last request of its operation, which raises; and an operation that
\* fails the create-via-diff check has sent neither the update nor the flush.
C22_FlushEndsMutation ==
    \A t \in Threads :
        /\ (pc[t] = "done" /\ op[t] \in MutatingOps) =>
              \E f \in 1..Len(sent[t]) :
                 /\ sent[t][f].request = "FLUSH"
                 /\ \A i \in 1..Len(sent[t]) : Mutating(sent[t][i].request) => i < f
        /\ \A i \in 1..Len(sent[t]) :
              ~sent[t][i].ok => (i = Len(sent[t]) /\ pc[t] = "raised")
        /\ exc[t] = "AssertionError" =>
              /\ pc[t] = "raised"
              /\ \A i \in 1..Len(sent[t]) : sent[t][i].request \notin {"PUT", "FLUSH"}

\* delete_camera has deleted the VMDA data and the only camera of the server,
\* which another client had created, has flushed both times, and has returned
C22_Witness ==
    \E t \in Threads :
        /\ op[t][1] = "delete_camera"
        /\ pc[t] = "done"
        /\ Len(sent[t]) = 4
        /\ sent[t][3] = [request |-> "DELETE", ok |-> TRUE]
        /\ coll["Camera"] = {} /\ tainted["Camera"] /\ foreign = 1

(***************************************************************************)
(* Claims about the release of the creation locks, checked under Spec.     *)
(***************************************************************************)
Holds(t) == {k \in DOMAIN locks : locks[k] = t}

\* a creation that ended by an exception raised inside its window
FailedInWindow(t) ==
    /\ pc[t] = "raised"
    /\ exc[t] # "AssertionError"
    /\ Len(sent[t]) \in 1..3

\* C23: a thread holds the lock of a type only inside the window of a creation
\* of that type: the lock is free again once a snapshot or the mutating
\* request has raised, and once the after-snapshot is taken, so the snapshots
\* are compared without the lock; a lock nobody is inside the window of is
\* free for the next creation of that type.
C23_LockAlwaysReleased ==
    /\ \A t \in Threads :
          /\ InWindow(t) => Holds(t) = {LockKey(inst[t], TypeOf(t))}
          /\ ~InWindow(t) => Holds(t) = {}
    /\ \A k \in DOMAIN locks :
          (\A u \in Threads : ~(InWindow(u) /\ LockKey(inst[u], TypeOf(u)) = k))
             => LockFree(k)

\* a creation failed inside its window, at its mutating request, and a later
\* creation of the same type has taken the lock and sent its own request
C23_Witness ==
    \E t, u \in Threads :
        /\ t # u /\ SameLock(t, u)
        /\ FailedInWindow(t) /\ Len(sent[t]) = 2
        /\ pc[u] = "after"

(***************************************************************************)
(* Claims about several RsgHttpApi instances, checked under SpecInstances. *)
(***************************************************************************)
\* u creates an object of the type of t through another RsgHttpApi
OtherInstance(t, u) ==
    /\ u # t
    /\ inst[u] # inst[t]
    /\ op[u] = op[t]

\* C24: the creation locks serialize the creations of one RsgHttpApi only. A
\* thread that waits for the lock of a type takes it whenever no thread of
\* its own RsgHttpApi is inside the window of that type, also while a thread
\* of another RsgHttpApi is inside it; and with nobody else modifying the
\* server, a creation fails the exactly-one check only when a creation of the
\* same type is made through another RsgHttpApi.
C24_LocksArePerInstance ==
    \A t \in Threads :
        /\ ( /\ pc[t] = "acquire"
             /\ \A u \in Threads \ {t} :
                   (InWindow(u) /\ TypeOf(u) = TypeOf(t)) => inst[u] # inst[t] )
           => ENABLED Acquire(t)
        /\ exc[t] = "AssertionError" => \E u \in Threads : OtherInstance(t, u)

\* two creations of one type through two RsgHttpApi objects overlapped: the
\* after-snapshot of one contained the object of the other, and it failed the
\* exactly-one check
C24_Witness ==
    \E t, u \in Threads :
        /\ OtherInstance(t, u)
        /\ pc[t] = "raised" /\ exc[t] = "AssertionError"
        /\ created[t] # 0 /\ created[u] # 0
        /\ foreign = 0

(***************************************************************************)
(* Claims about the audit log of RsgHttpApi, checked under SpecHttp.       *)
(***************************************************************************)
Steps(step) == {i \in 1..Len(httpCall.steps) : httpCall.steps[i] = step}

\* C25: a request sent through an RsgHttpApi with audit logging enabled is
\* followed by one attempt to write its record, made before the response is
\* passed to check_for_error: one record is written when the store works,
\* none and a logged error when it does not; without logging nothing is
\* written. In each case the response is then checked and the call returns or
\* raises as the same call does without audit logging.
C25_AuditNeverChangesOutcome ==
    (httpCall.api = "RsgHttpApi" /\ Sent) =>
        /\ Cardinality(Steps("audit")) = (IF httpCall.db = "on" THEN 1 ELSE 0)
        /\ Cardinality(Steps("audit_error")) = (IF httpCall.db = "broken" THEN 1 ELSE 0)
        /\ \A i \in Steps("audit") \cup Steps("audit_error") :
              \A j \in Steps("request") : \A k \in Steps("check_for_error") : j < i /\ i < k
        /\ Checked
        /\ httpCall.outcome = Outcome(RsgCheckForError(httpCall.response))

\* the store failed while recording a request whose response was then refused
C25_Witness ==
    /\ httpCall.api = "RsgHttpApi" /\ Sent
    /\ httpCall.db = "broken"
    /\ httpCall.steps = <<"request", "audit_error", "check_for_error">>
    /\ httpCall.outcome = "RSGServerError"

(***************************************************************************)
(* Claims about the waits for the server, checked under SpecWait.          *)
(***************************************************************************)
\* C26: a wait with a timeout >= 0 checks the server at least once before it
\* returns; it returns True at the first check that finds the awaited state;
\* and it gives up once more than `timeout` seconds have passed: it makes no
\* check after that time, hence no more than timeout + 1 checks (one second at
\* least lies between two checks), and then returns False, so it ends.
C26_WaitEndsAtTimeout ==
    /\ w_pc = "returned" => w_checks >= 1
    /\ (w_pc = "returned" /\ w_result = <<TRUE>>) =>
          Awaited(w_args.awaited, w_running)
    /\ (w_pc = "returned" /\ w_result = <<FALSE>>) => w_elapsed > w_args.timeout
    /\ w_pc = "check" => w_elapsed <= w_args.timeout
    /\ w_checks <= w_args.timeout + 1

(***************************************************************************)
(* Claims about the loggers, checked under SpecLogging.                    *)
(***************************************************************************)
Called(step) == \E i \in 1..Len(sk_emit.steps) : sk_emit.steps[i] = step

Configured(handlers) ==
    /\ Len(handlers) = 4
    /\ handlers[1] \in {"FileHandler", "NullHandler"}
    /\ handlers[2] = "StreamHandler"
    /\ handlers[3] = "RobotFrameworkHandler"
    /\ handlers[4] \in {"AxxonSocketHandler", "NullHandler"}

\* C28: once configure_loggers() has been called, each of the two loggers has
\* four handlers: the local file handler, the handler of the real stdout, the
\* report handler and the socket handler (a NullHandler where the file or the
\* socket handler could not be made), and one filter; both loggers have the
\* same ones; and no later call and no logging changes the handlers or the
\* filters of either logger.
C28_ConfigureLoggersIdempotent ==
    /\ [](lg_calls = 0 => \A n \in LoggerNames : lg_handlers[n] = <<>> /\ lg_filters[n] = <<>>)
    /\ [](lg_calls > 0 =>
            /\ \A n \in LoggerNames :
                  Configured(lg_handlers[n]) /\ lg_filters[n] = <<"RelevantMessagesFilter">>
            /\ lg_handlers["axxon"] = lg_handlers["axxonnext"])
    /\ [][lg_calls > 0 => (lg_handlers' = lg_handlers /\ lg_filters' = lg_filters)]_vars

\* configure_loggers() was called three times; the first call could not make
\* the socket handler and put a NullHandler in its place
C28_Witness ==
    /\ lg_calls = 3
    /\ sk_emits = 0
    /\ lg_handlers["axxonnext"] =
          <<"FileHandler", "StreamHandler", "RobotFrameworkHandler", "NullHandler">>

====
